---- MODULE Spec2Model ----
(***************************************************************************)
(* A model of aiida-firecrest: the FirecREST transport of AiiDA.           *)
(*                                                                         *)
(*   SpecErr   the error translation layer (utils.convert_header_exceptions)*)
(*   SpecIO    the admission gate of getfile/putfile (_lock / _unlock)     *)
(*   SpecFS    the filesystem verbs of the transport on a remote tree      *)
(*   SpecTree  puttree / gettree: naming, payoff and archive transfer      *)
(*   SpecXfer  putfile / getfile and the checksum validation               *)
(*   SpecSched the scheduler's get_jobs / kill_job                         *)
(***************************************************************************)
EXTENDS Naturals, Integers, Sequences, FiniteSets, TLC

VARIABLES
    \* ---- error translation layer
    failure,        \* what the wrapped remote call raised ("none" before the call)
    convert,        \* the `convert` argument of convert_header_exceptions
    raised,         \* what leaves the with-block
    \* ---- admission gate
    pc,             \* position of every coroutine in getfile_async / putfile_async
    concurrent_io,  \* FirecrestTransport._concurrent_io
    max_io_allowed, \* FirecrestTransport._max_io_allowed
    \* ---- filesystem verbs
    remote,         \* the remote filesystem: path -> "file" | "dir" | "link"
    last,           \* the last transport call: its arguments and its outcome
    \* ---- tree transfer
    local,          \* the local filesystem: path -> "file" | "dir"
    payoff_override,\* FirecrestTransport._payoff_override
    checksum_check, \* FirecrestTransport.checksum_check
    tree,           \* the last puttree / gettree call and its outcome
    \* ---- single-file transfer
    xfer,           \* the last putfile / getfile call: arguments, remote calls, result
    \* ---- scheduler, copy, glob, FcPath, mode synthesis
    sched,
    cp,
    gl,
    fcp,
    md,
    \* ---- client logger, submit-script header
    lg,
    hd

errVars  == <<failure, convert, raised>>
ioVars   == <<pc, concurrent_io, max_io_allowed>>
fsVars   == <<remote, last>>
treeVars == <<local, payoff_override, checksum_check, tree>>
moreVars == <<xfer, sched, cp, gl, fcp, md, lg, hd>>
vars     == <<failure, convert, raised, pc, concurrent_io, max_io_allowed,
              remote, last, local, payoff_override, checksum_check, tree,
              xfer, sched, cp, gl, fcp, md, lg, hd>>

(***************************************************************************)
(* Bounds of the model.                                                    *)
(***************************************************************************)
MaxHeaders == 2

(***************************************************************************)
(* Python's exception classes, as far as the transport tells them apart.   *)
(***************************************************************************)
OSErrorKinds ==
    {"OSError", "FileExistsError", "FileNotFoundError", "IsADirectoryError",
     "NotADirectoryError", "PermissionError", "ApiTimeoutError",
     "MachineDoesNotExistError", "FileSizeExceededError"}

IsOSError(kind) == kind \in OSErrorKinds

(***************************************************************************)
(* Error translation layer.                                                *)
(***************************************************************************)
\* _COMMON_HEADER_EXC, in the order the dict literal lists its keys.
CommonHeaderOrder ==
    <<"X-Timeout", "X-Machine-Does-Not-Exist", "X-Machine-Not-Available",
      "X-Permission-Denied", "X-Not-Found", "X-Not-A-Directory", "X-Exists",
      "X-Invalid-Path", "X-A-Directory", "X-Size-Limit", "X-Sbatch-Error">>

CommonHeaders == {CommonHeaderOrder[i] : i \in 1..Len(CommonHeaderOrder)}

COMMON_HEADER_EXC ==
    [h \in CommonHeaders |->
        CASE h = "X-Timeout"                -> "ApiTimeoutError"
          [] h = "X-Machine-Does-Not-Exist" -> "MachineDoesNotExistError"
          [] h = "X-Machine-Not-Available"  -> "PermissionError"
          [] h = "X-Permission-Denied"      -> "PermissionError"
          [] h = "X-Not-Found"              -> "FileNotFoundError"
          [] h = "X-Not-A-Directory"        -> "NotADirectoryError"
          [] h = "X-Exists"                 -> "FileExistsError"
          [] h = "X-Invalid-Path"           -> "FileNotFoundError"
          [] h = "X-A-Directory"            -> "IsADirectoryError"
          [] h = "X-Size-Limit"             -> "FileSizeExceededError"
          [] h = "X-Sbatch-Error"           -> "SchedulerError"]

\* The two `convert` arguments the transport passes: none, and chmod's.
NoConvert    == [h \in {} |-> "None"]
ChmodConvert == [h \in {"X-Invalid-Mode"} |-> "ValueError"]
Converts     == {NoConvert, ChmodConvert}

\* Header names a response can carry: the signals above, chmod's, and headers
\* that are no signal at all.
HeaderNames == CommonHeaders \cup {"X-Invalid-Mode", "Content-Type", "X-Error"}

\* The substrings the fallback looks for in str(exc).
MsgMarks == {"File exists", "cannot statx", "Job not found"}

\* converters = {**_COMMON_HEADER_EXC, **(convert or {})}; .get(header)
Converters(cv) ==
    [h \in CommonHeaders \cup DOMAIN cv |->
        IF h \in DOMAIN cv THEN cv[h] ELSE COMMON_HEADER_EXC[h]]

ConverterGet(cv, h) ==
    IF h \in DOMAIN Converters(cv) THEN Converters(cv)[h] ELSE "None"

Recognised(cv, h) == ConverterGet(cv, h) # "None"

Reraise(f) == [type |-> f.cls, original |-> TRUE]
Raise(kind) == [type |-> kind, original |-> FALSE]

\* for header in exc.responses[-1].headers: c = converters.get(header) ...
RECURSIVE HeaderLoop(_, _, _, _)
HeaderLoop(cv, f, hs, i) ==
    IF i > Len(hs) THEN Reraise(f)
    ELSE IF Recognised(cv, hs[i]) THEN Raise(ConverterGet(cv, hs[i]))
    ELSE HeaderLoop(cv, f, hs, i + 1)

\* The loop as the table's order would have it: the mutant of HeaderIteration.
RECURSIVE TableLoop(_, _, _)
TableLoop(cv, f, i) ==
    IF i > Len(CommonHeaderOrder)
    THEN HeaderLoop(cv, f, f.headers, 1)
    ELSE IF \E j \in 1..Len(f.headers) : f.headers[j] = CommonHeaderOrder[i]
         THEN Raise(ConverterGet(cv, CommonHeaderOrder[i]))
         ELSE TableLoop(cv, f, i + 1)

HeaderIterationByTable(cv, f) == TableLoop(cv, f, 1)

\* except HeaderException as exc: (utils.py 102-107)
HeaderIteration(cv, f) == HeaderLoop(cv, f, f.headers, 1)

\* The fallback applied to every failure: the mutant of ExceptClause.
MessageFallbackAlways(cv, f) ==
    IF f.cls = "HeaderException" /\ HeaderIteration(cv, f).original = FALSE
    THEN HeaderIteration(cv, f)
    ELSE IF "File exists" \in f.msg THEN Raise("FileExistsError")
    ELSE IF "cannot statx" \in f.msg THEN Raise("FileNotFoundError")
    ELSE IF "Job not found" \in f.msg THEN Raise("JobNotFoundError")
    ELSE Reraise(f)

\* except Exception as exc: (utils.py 108-122)
MessageFallback(f) ==
    IF "File exists" \in f.msg THEN Raise("FileExistsError")
    ELSE IF "cannot statx" \in f.msg THEN Raise("FileNotFoundError")
    ELSE IF "Job not found" \in f.msg THEN Raise("JobNotFoundError")
    ELSE Reraise(f)

\* The try statement of convert_header_exceptions: the first except clause
\* whose class matches handles the failure, and what it raises leaves the block.
ExceptClause(cv, f) ==
    IF f.cls = "HeaderException" THEN HeaderIteration(cv, f)
    ELSE MessageFallback(f)

ConvertHeaderExceptions(cv, f) == ExceptClause(cv, f)

\* Sequences of distinct header names, up to MaxHeaders long.
RECURSIVE HeaderSeqs(_)
HeaderSeqs(n) ==
    IF n = 0 THEN {<<>>}
    ELSE HeaderSeqs(n - 1) \cup
         {Append(s, h) : s \in {t \in HeaderSeqs(n - 1) : Len(t) = n - 1},
                         h \in HeaderNames}

DistinctSeq(s) == \A i, j \in 1..Len(s) : i # j => s[i] # s[j]

Failures ==
    {[cls |-> "HeaderException", headers |-> hs, msg |-> m] :
        hs \in {s \in HeaderSeqs(MaxHeaders) : DistinctSeq(s)}, m \in SUBSET MsgMarks}
    \cup
    {[cls |-> "Exception", headers |-> <<>>, msg |-> m] : m \in SUBSET MsgMarks}

NoFailure == [cls |-> "none", headers |-> <<>>, msg |-> {}]
NotRaised == [type |-> "none", original |-> FALSE]
Returned  == [type |-> "returned", original |-> FALSE]

ErrInit ==
    /\ failure = NoFailure
    /\ convert \in Converts
    /\ raised = NotRaised

\* The wrapped call returns: nothing is raised.
WrappedCallReturns ==
    /\ raised = NotRaised
    /\ raised' = Returned
    /\ UNCHANGED <<failure, convert, ioVars, fsVars, treeVars, moreVars>>

\* The wrapped call raises f: the except clauses translate it.
WrappedCallRaises ==
    /\ raised = NotRaised
    /\ \E f \in Failures :
        /\ failure' = f
        /\ raised' = ConvertHeaderExceptions(convert, f)
    /\ UNCHANGED <<convert, ioVars, fsVars, treeVars, moreVars>>

ErrIdle == failure = NoFailure /\ convert = NoConvert /\ raised = NotRaised

(***************************************************************************)
(* Admission gate of getfile_async / putfile_async.                        *)
(*                                                                         *)
(* asyncio runs one coroutine at a time and switches only at an await that *)
(* suspends: each action below is the code between two such points.        *)
(***************************************************************************)
NumProcs == 3
MaxIO == 2

Procs == 1..NumProcs
Ops == {"getfile", "putfile"}

Idle == [op |-> "none", at |-> "idle"]
At(op, at) == [op |-> op, at |-> at]

\* The off-by-one gate: the mutant of LockBlocked.
LockBlockedOffByOne(c, m) == c > m

\* while self._concurrent_io >= self.max_io_allowed: await asyncio.sleep(...)
LockBlocked(c, m) == c >= m

InFlight == {p \in Procs : pc[p].at = "io"}

IOInit ==
    /\ pc = [p \in Procs |-> Idle]
    /\ concurrent_io = 0
    /\ max_io_allowed \in 1..MaxIO

\* getfile_async / putfile_async up to its first remote probe
\* (isfile_async of the source, resp. isdir_async of the destination).
Call(p) ==
    /\ pc[p].at = "idle"
    /\ \E op \in Ops : pc' = [pc EXCEPT ![p] = At(op, "probe")]
    /\ UNCHANGED <<concurrent_io, max_io_allowed, errVars, fsVars, treeVars, moreVars>>

\* The probe makes the call raise before the with-block (FileNotFoundError
\* in getfile_async, ValueError in putfile_async).
ProbeRejects(p) ==
    /\ pc[p].at = "probe"
    /\ pc' = [pc EXCEPT ![p] = Idle]
    /\ UNCHANGED <<concurrent_io, max_io_allowed, errVars, fsVars, treeVars, moreVars>>

\* _lock finds room (on entry or after a sleep): the counter goes up and the
\* client's download / upload starts.
LockAdmits(p) ==
    /\ pc[p].at \in {"probe", "sleep"}
    /\ ~LockBlocked(concurrent_io, max_io_allowed)
    /\ concurrent_io' = concurrent_io + 1
    /\ pc' = [pc EXCEPT ![p].at = "io"]
    /\ UNCHANGED <<max_io_allowed, errVars, fsVars, treeVars, moreVars>>

\* _lock finds the gate full and sleeps.
LockSleeps(p) ==
    /\ pc[p].at = "probe"
    /\ LockBlocked(concurrent_io, max_io_allowed)
    /\ pc' = [pc EXCEPT ![p].at = "sleep"]
    /\ UNCHANGED <<concurrent_io, max_io_allowed, errVars, fsVars, treeVars, moreVars>>

\* The client's download / upload returns: _unlock, and the call goes on
\* outside the gate.
TransferReturns(p) ==
    /\ pc[p].at = "io"
    /\ concurrent_io' = concurrent_io - 1
    /\ pc' = [pc EXCEPT ![p] = Idle]
    /\ UNCHANGED <<max_io_allowed, errVars, fsVars, treeVars, moreVars>>

\* The client's download / upload raises: the exception leaves the with-block
\* and `await self._unlock()` is never reached.
TransferRaises(p) ==
    /\ pc[p].at = "io"
    /\ pc' = [pc EXCEPT ![p] = Idle]
    /\ UNCHANGED <<concurrent_io, max_io_allowed, errVars, fsVars, treeVars, moreVars>>

IOIdle ==
    /\ pc = [p \in Procs |-> Idle]
    /\ concurrent_io = 0
    /\ max_io_allowed = 1

(***************************************************************************)
(* The remote filesystem and the client's calls on it.                     *)
(*                                                                         *)
(* A path is the sequence of its components, <<>> being the root.  A       *)
(* filesystem maps the paths that exist to their nodes.                    *)
(***************************************************************************)
FileNode == [kind |-> "file", target |-> <<>>]
DirNode  == [kind |-> "dir", target |-> <<>>]
LinkNode(t) == [kind |-> "link", target |-> t]

\* posixpath.dirname / FcPath.parent, FcPath.name, FcPath.joinpath
Parent(p) == IF p = <<>> THEN <<>> ELSE SubSeq(p, 1, Len(p) - 1)
Name(p) == p[Len(p)]
JoinPath(p, q) == p \o q

IsPrefix(p, q) == Len(p) <= Len(q) /\ SubSeq(q, 1, Len(p)) = p

\* What the server's stat finds at p ("missing" when it finds nothing).
Stat(fs, p, dereference) ==
    IF p = <<>> THEN "dir"
    ELSE IF p \notin DOMAIN fs THEN "missing"
    ELSE IF fs[p].kind = "link" /\ dereference
         THEN IF fs[p].target \in DOMAIN fs THEN fs[fs[p].target].kind ELSE "missing"
         ELSE fs[p].kind

Resolve(fs, p) == IF p \in DOMAIN fs /\ fs[p].kind = "link" THEN fs[p].target ELSE p

Children(fs, d) == {q \in DOMAIN fs : Len(q) = Len(d) + 1 /\ Parent(q) = d}

Descendants(fs, d) == {q \in DOMAIN fs : IsPrefix(d, q) /\ q # d}

Restrict(fs, S) == [q \in S |-> fs[q]]

\* How the server words a failure: a signal header, or only a message.
Styles == {"header", "message"}

Hdr(hs) == [cls |-> "HeaderException", headers |-> hs, msg |-> {}]
Gen(m)  == [cls |-> "Exception", headers |-> <<>>, msg |-> m]

SrvFailure(call, cond, style) ==
    CASE cond = "exists" ->
            IF style = "header" THEN Hdr(<<"X-Exists">>) ELSE Gen({"File exists"})
      [] cond = "notfound" ->
            IF style = "header" THEN Hdr(<<"X-Not-Found">>)
            ELSE IF call = "stat" THEN Gen({"cannot statx"})
            ELSE Hdr(<<"X-Invalid-Path">>)
      [] cond = "notadir" -> Hdr(<<"X-Not-A-Directory">>)

\* The failure the server answers a stat of p with; NoFailure when p is there.
StatNatural(fs, p, dereference, style) ==
    IF Stat(fs, p, dereference) = "missing"
    THEN SrvFailure("stat", "notfound", style)
    ELSE NoFailure

Ok(v)      == [ok |-> TRUE, value |-> v, exc |-> "none"]
Raises(e)  == [ok |-> FALSE, value |-> "none", exc |-> e]

\* rm of the client: rm -rf of the path (a link is removed, not its target).
ClientRm(fs, p) == Restrict(fs, {q \in DOMAIN fs : ~IsPrefix(p, q)})

\* The proper ancestors of p, root excluded.
Ancestors(p) == {SubSeq(p, 1, n) : n \in 1..(Len(p) - 1)}

\* mkdir of the client: `mkdir`, and `mkdir -p` when create_parents is set.
ClientMkdir(fs, p, create_parents, style) ==
    IF p \in DOMAIN fs
    THEN IF create_parents /\ Stat(fs, p, TRUE) = "dir"
         THEN [fs |-> fs, failure |-> NoFailure]
         ELSE [fs |-> fs, failure |-> SrvFailure("mkdir", "exists", style)]
    ELSE IF \E a \in Ancestors(p) : Stat(fs, a, TRUE) \notin {"dir", "missing"}
         THEN [fs |-> fs, failure |-> SrvFailure("mkdir", "notadir", style)]
    ELSE IF ~create_parents /\ Stat(fs, Parent(p), TRUE) = "missing"
         THEN [fs |-> fs, failure |-> SrvFailure("mkdir", "notfound", style)]
    ELSE [fs |-> [q \in DOMAIN fs \cup Ancestors(p) \cup {p} |->
                     IF q \in DOMAIN fs THEN fs[q] ELSE DirNode],
          failure |-> NoFailure]

(***************************************************************************)
(* The transport's verbs.  Every operator is one method: it takes the      *)
(* remote filesystem and the arguments, and gives the result (a value or   *)
(* the class of the exception raised), the filesystem afterwards and the   *)
(* paths the client's rm was called on.                                    *)
(***************************************************************************)
\* _stat / _lstat: the client's stat inside convert_header_exceptions().
\* fl is what the client raises (NoFailure: it returns the mode).
StatCall(fs, p, dereference, fl) ==
    IF fl # NoFailure
    THEN Raises(ConvertHeaderExceptions(NoConvert, fl).type)
    ELSE Ok(Stat(fs, p, dereference))

Bool(b) == IF b THEN "True" ELSE "False"

\* A probe that turns every OSError into False: the mutant of path_exists_async.
path_exists_catch_oserror(fs, p, fl) ==
    LET r == StatCall(fs, p, TRUE, fl)
    IN  IF r.ok THEN "True"
        ELSE IF IsOSError(r.exc) THEN "False"
        ELSE r.exc

path_exists_async(fs, p, fl) ==
    LET r == StatCall(fs, p, TRUE, fl)
    IN  IF r.ok THEN "True"
        ELSE IF r.exc = "FileNotFoundError" THEN "False"
        ELSE r.exc

isdir_async(fs, p, fl) ==
    LET r == StatCall(fs, p, TRUE, fl)
    IN  IF r.ok THEN Bool(r.value = "dir")
        ELSE IF r.exc = "FileNotFoundError" THEN "False"
        ELSE r.exc

isfile_async(fs, p, fl) ==
    LET r == StatCall(fs, p, TRUE, fl)
    IN  IF r.ok THEN Bool(r.value = "file")
        ELSE IF r.exc = "FileNotFoundError" THEN "False"
        ELSE r.exc

is_symlink_async(fs, p, fl) ==
    LET r == StatCall(fs, p, FALSE, fl)
    IN  IF r.ok THEN Bool(r.value = "link")
        ELSE IF r.exc = "FileNotFoundError" THEN "False"
        ELSE r.exc

\* The probes as the other verbs call them, the server answering in `style`.
PathExists(fs, p, style) ==
    path_exists_async(fs, p, StatNatural(fs, p, TRUE, style)) = "True"
IsDir(fs, p, style) == isdir_async(fs, p, StatNatural(fs, p, TRUE, style)) = "True"
IsFile(fs, p, style) == isfile_async(fs, p, StatNatural(fs, p, TRUE, style)) = "True"

\* listdir_async(path), not recursive: the names under path, as `ls` gives them.
listdir_async(fs, p, style) ==
    IF IsDir(fs, p, style)
    THEN Ok({Name(q) : q \in Children(fs, Resolve(fs, p))})
    ELSE IF p \in DOMAIN fs THEN Ok({Name(p)})
    ELSE Raises(ConvertHeaderExceptions(NoConvert,
                    SrvFailure("ls", "notfound", style)).type)

Outcome(result, fs, rm) == [result |-> result, fs |-> fs, rm |-> rm]

\* mkdir_async that always asks the client for create_parents and lets the
\* translated exception out as it is: the mutant of mkdir_async.
mkdir_no_exists_check(fs, p, ignore_existing, style) ==
    LET m == ClientMkdir(fs, p, TRUE, style)
    IN  IF m.failure = NoFailure THEN Outcome("ok", m.fs, {})
        ELSE Outcome(ConvertHeaderExceptions(NoConvert, m.failure).type, fs, {})

\* mkdir_async that always asks the client for create_parents (exist_ok).
mkdir_exist_ok(fs, p, ignore_existing, style) ==
    LET m == ClientMkdir(fs, p, TRUE, style)
    IN  IF m.failure = NoFailure THEN Outcome("ok", m.fs, {})
        ELSE Outcome(ConvertHeaderExceptions(NoConvert, m.failure).type, fs, {})

mkdir_async(fs, p, ignore_existing, style) ==
    LET m == ClientMkdir(fs, p, ignore_existing, style)
        e == ConvertHeaderExceptions(NoConvert, m.failure).type
    IN  IF m.failure = NoFailure THEN Outcome("ok", m.fs, {})
        ELSE IF e = "FileExistsError"
             THEN IF ~ignore_existing THEN Outcome("OSError", fs, {})
                  ELSE Outcome(e, fs, {})
        ELSE Outcome(e, fs, {})

makedirs_async(fs, p, ignore_existing, style) ==
    LET exists == PathExists(fs, p, style)
    IN  IF ~ignore_existing /\ exists THEN Outcome("OSError", fs, {})
        ELSE IF ignore_existing /\ exists THEN Outcome("ok", fs, {})
        ELSE mkdir_async(fs, p, TRUE, style)

\* remove_async that trusts the client's rm: the mutant of remove_async.
remove_unchecked(fs, p, style) ==
    IF PathExists(fs, p, style) THEN Outcome("ok", ClientRm(fs, p), {p})
    ELSE Outcome("ok", fs, {})

remove_async(fs, p, style) ==
    IF IsFile(fs, p, style) THEN Outcome("ok", ClientRm(fs, p), {p})
    ELSE IF ~PathExists(fs, p, style) THEN Outcome("ok", fs, {})
    ELSE Outcome("OSError", fs, {})

\* rmdir_async without the listing: the mutant of rmdir_async.
rmdir_unchecked(fs, p, style) == Outcome("ok", ClientRm(fs, p), {p})

rmdir_async(fs, p, style) ==
    LET ls == listdir_async(fs, p, style)
    IN  IF ~ls.ok THEN Outcome(ls.exc, fs, {})
        ELSE IF Cardinality(ls.value) = 0 THEN Outcome("ok", ClientRm(fs, p), {p})
        ELSE Outcome("OSError", fs, {})

rmtree_async(fs, p, style) ==
    IF IsDir(fs, p, style) THEN Outcome("ok", ClientRm(fs, p), {p})
    ELSE IF ~PathExists(fs, p, style) THEN Outcome("ok", fs, {})
    ELSE Outcome("OSError", fs, {})

(***************************************************************************)
(* SpecFS: the verbs that change the remote tree, called one after the     *)
(* other.  SpecProbe: one probe of a remote tree, the stat behind it being *)
(* answered with the truth or with any failure.                            *)
(***************************************************************************)
FsPaths == {<<"d">>, <<"d", "x">>, <<"d", "x", "y">>, <<"l">>}
LinkTargets == {<<"d">>, <<"d", "x">>}

FsNodes == {FileNode, DirNode} \cup {LinkNode(t) : t \in LinkTargets}

\* A filesystem the server can hold: an entry lies in a directory, and the
\* only link is l (its target being a file, a directory or missing).
WellFormed(fs) ==
    \A q \in DOMAIN fs :
        /\ Len(q) > 1 => Parent(q) \in DOMAIN fs /\ fs[Parent(q)].kind = "dir"
        /\ fs[q].kind = "link" <=> q = <<"l">>

WellFormedFS ==
    {fs \in UNION {[S -> FsNodes] : S \in SUBSET FsPaths} : WellFormed(fs)}

EmptyFS == [q \in {} |-> DirNode]

\* A call: the verb, its path and its ignore_existing flag, what the stat of
\* a probe was answered with, the result, the paths rm was called on, the
\* remote tree before the call, and the call made before this one.
NoPrev ==
    [op |-> "none", path |-> <<>>, flag |-> FALSE, result |-> "none",
     pre |-> EmptyFS]

NoCall ==
    [op |-> "none", path |-> <<>>, flag |-> FALSE, fault |-> NoFailure,
     result |-> "none", rm |-> {}, pre |-> EmptyFS, prev |-> NoPrev]

\* What a stat can be answered with besides the truth: any one signal
\* header, a header that is no signal, or a failure with only a message.
StatFaults ==
    {Hdr(<<h>>) : h \in HeaderNames} \cup {Gen(m) : m \in SUBSET MsgMarks}

ProbeFaults(fs, p, dereference) ==
    {StatNatural(fs, p, dereference, st) : st \in Styles} \cup StatFaults

FSInit ==
    /\ remote \in WellFormedFS
    /\ last = NoCall

Record(op, p, flag, fl, out) ==
    /\ last' = [op |-> op, path |-> p, flag |-> flag, fault |-> fl,
                result |-> out.result, rm |-> out.rm, pre |-> remote,
                prev |-> [op |-> last.op, path |-> last.path, flag |-> last.flag,
                          result |-> last.result, pre |-> last.pre]]
    /\ remote' = out.fs
    /\ UNCHANGED <<errVars, ioVars, treeVars, moreVars>>

MkdirCall ==
    \E p \in FsPaths, ig \in BOOLEAN, st \in Styles :
        Record("mkdir", p, ig, NoFailure, mkdir_async(remote, p, ig, st))

MakedirsCall ==
    \E p \in FsPaths, ig \in BOOLEAN, st \in Styles :
        Record("makedirs", p, ig, NoFailure, makedirs_async(remote, p, ig, st))

RemoveCall ==
    \E p \in FsPaths, st \in Styles :
        Record("remove", p, FALSE, NoFailure, remove_async(remote, p, st))

RmdirCall ==
    \E p \in FsPaths, st \in Styles :
        Record("rmdir", p, FALSE, NoFailure, rmdir_async(remote, p, st))

RmtreeCall ==
    \E p \in FsPaths, st \in Styles :
        Record("rmtree", p, FALSE, NoFailure, rmtree_async(remote, p, st))

PathExistsCall ==
    /\ last.op = "none"
    /\ \E p \in FsPaths : \E fl \in ProbeFaults(remote, p, TRUE) :
        Record("path_exists", p, FALSE, fl,
               Outcome(path_exists_async(remote, p, fl), remote, {}))

IsdirCall ==
    /\ last.op = "none"
    /\ \E p \in FsPaths : \E fl \in ProbeFaults(remote, p, TRUE) :
        Record("isdir", p, FALSE, fl,
               Outcome(isdir_async(remote, p, fl), remote, {}))

IsfileCall ==
    /\ last.op = "none"
    /\ \E p \in FsPaths : \E fl \in ProbeFaults(remote, p, TRUE) :
        Record("isfile", p, FALSE, fl,
               Outcome(isfile_async(remote, p, fl), remote, {}))

IsSymlinkCall ==
    /\ last.op = "none"
    /\ \E p \in FsPaths : \E fl \in ProbeFaults(remote, p, FALSE) :
        Record("is_symlink", p, FALSE, fl,
               Outcome(is_symlink_async(remote, p, fl), remote, {}))

FSIdle == remote = EmptyFS /\ last = NoCall

(***************************************************************************)
(* Tree transfer: puttree_async / gettree_async, payoff and the archive    *)
(* strategy.                                                               *)
(***************************************************************************)
MaxEntries == 4
MaxCalls == 3
PayoffThreshold == 3

EntryPool == <<"e1", "e2", "e3", "e4", "e5", "e6", "e7", "e8">>
TempPool  == <<"temp_1.gzip", "temp_2.gzip", "temp_3.gzip", "temp_4.gzip",
               "temp_5.gzip", "temp_6.gzip">>

LocalSrc   == <<"src">>      \* the local directory puttree uploads
LocalDest  == <<"out">>      \* where gettree downloads to
RemoteSrc  == <<"data">>     \* the remote directory gettree downloads
RemoteDest == <<"up">>       \* where puttree uploads to
TempDir    == <<"tmp">>      \* self._temp_directory

\* q relative to the directory d it lies under.
RelTo(d, q) == SubSeq(q, Len(d) + 1, Len(q))

\* A directory d holding n plain files, and a subdirectory with one file
\* in it when nested.
TreeAt(d, n, nested) ==
    LET files == {JoinPath(d, <<EntryPool[i]>>) : i \in 1..n}
        sub   == IF nested THEN {JoinPath(d, <<"sub">>)} ELSE {}
        subf  == IF nested THEN {JoinPath(d, <<"sub", "e1">>)} ELSE {}
    IN  [q \in {d} \cup files \cup sub \cup subf |->
            IF q \in files \cup subf THEN FileNode ELSE DirNode]

Merge(f, g) == [q \in DOMAIN f \cup DOMAIN g |-> IF q \in DOMAIN g THEN g[q] ELSE f[q]]

\* Path.mkdir(parents=True): p and its missing ancestors become directories.
MkdirP(fs, p) ==
    [q \in DOMAIN fs \cup Ancestors(p) \cup {p} |->
        IF q \in DOMAIN fs THEN fs[q] ELSE DirNode]

AddFile(fs, p) == [q \in DOMAIN fs \cup {p} |-> IF q = p THEN FileNode ELSE fs[q]]

Unlink(fs, p) == Restrict(fs, DOMAIN fs \ {p})

\* The files of the tree under d, and everything under d.
FilesUnder(fs, d) == {q \in Descendants(fs, d) : fs[q].kind = "file"}

\* The tree under src copied under root: every entry, or the files and the
\* directories leading to them (what an archive of the files holds).
CopyTree(from, src, to, root, entries) ==
    LET placed == UNION {{JoinPath(root, SubSeq(RelTo(src, q), 1, n)) :
                            n \in 1..Len(RelTo(src, q))} : q \in entries}
    IN  [q \in DOMAIN to \cup placed |->
            IF q \in DOMAIN to THEN to[q]
            ELSE from[JoinPath(src, RelTo(root, q))]]

\* listdir_async(path, recursive=True): the relative paths of all that lies
\* under path.
listdir_recursive(fs, p, style) ==
    IF Stat(fs, p, TRUE) = "missing"
    THEN Raises(ConvertHeaderExceptions(NoConvert,
                    SrvFailure("ls", "notfound", style)).type)
    ELSE Ok({RelTo(Resolve(fs, p), q) : q \in Descendants(fs, Resolve(fs, p))})

\* payoff(path): True when the tree is to travel as one archive.
payoff(lfs, rfs, override, path, style) ==
    IF override # "None" THEN Ok(override = "True")
    ELSE IF path \in DOMAIN lfs
         THEN IF lfs[path].kind = "dir"
              THEN Ok(Cardinality(Children(lfs, path)) > PayoffThreshold)
              ELSE Raises("NotADirectoryError")
    ELSE LET ls == listdir_recursive(rfs, path, style)
         IN  IF ls.ok THEN Ok(Cardinality(ls.value) > PayoffThreshold)
             ELSE Raises(ls.exc)

\* What a tree call leaves behind.
TreeOut(result, lfs, rfs, strategy, failed, ltemp, rtemp) ==
    [result |-> result, local |-> lfs, remote |-> rfs, strategy |-> strategy,
     failed_at |-> failed, ltemp |-> ltemp, rtemp |-> rtemp]

NoTemp == <<>>

\* _puttreetar(localpath, remotepath).  `fault` names the step that raises
\* when the call reaches it.
puttreetar(lfs, rfs, check, src, root, tmp, fault, style) ==
    LET ltemp == JoinPath(Parent(src), <<tmp>>)
        rtemp == JoinPath(TempDir, <<tmp>>)
        l1 == AddFile(lfs, ltemp)             \* tarfile.open(tarpath, "w:gz")
        r2 == AddFile(rfs, rtemp)             \* the upload of putfile_async
        r3 == CopyTree(lfs, src, r2, root, FilesUnder(lfs, src))  \* extract
    IN  IF fault = "compress"
        THEN TreeOut("PermissionError", l1, rfs, "tar", "compress", ltemp, rtemp)
        ELSE IF fault = "upload"
        THEN TreeOut("Exception", Unlink(l1, ltemp), rfs, "tar", "upload", ltemp, rtemp)
        ELSE IF fault = "checksum" /\ check
        THEN TreeOut("ValueError", Unlink(l1, ltemp), r2, "tar", "checksum", ltemp, rtemp)
        ELSE IF fault = "extract"
        THEN TreeOut("Exception", Unlink(l1, ltemp), remove_async(r2, rtemp, style).fs,
                     "tar", "extract", ltemp, rtemp)
        ELSE TreeOut("ok", Unlink(l1, ltemp), remove_async(r3, rtemp, style).fs,
                     "tar", "none", ltemp, rtemp)

\* The loop of puttree_async over os.walk(localpath): a directory is made
\* for every directory of the tree and every file is sent by putfile_async.
puttree_files(lfs, rfs, check, src, root, fault) ==
    LET files == FilesUnder(lfs, src)
        first == CHOOSE q \in files : \A o \in files : Len(q) <= Len(o)
    IN  IF files # {} /\ fault = "upload"
        THEN TreeOut("Exception", lfs, rfs, "files", "upload", NoTemp, NoTemp)
        ELSE IF files # {} /\ fault = "checksum" /\ check
        THEN TreeOut("ValueError", lfs, CopyTree(lfs, src, rfs, root, {first}),
                     "files", "checksum", NoTemp, NoTemp)
        ELSE TreeOut("ok", lfs, CopyTree(lfs, src, rfs, root, Descendants(lfs, src)),
                     "files", "none", NoTemp, NoTemp)

\* puttree_async that always takes the destination as the root: the mutant
\* of PutRoot.
PutRootNeverNested(rfs, src, dest, style) == dest

\* "this block is added only to mimick the behavior that aiida expects"
PutRoot(rfs, src, dest, style) ==
    IF PathExists(rfs, dest, style) THEN JoinPath(dest, <<Name(src)>>) ELSE dest

puttree_async(lfs, rfs, override, check, src, dest, tmp, fault, style) ==
    IF src \notin DOMAIN lfs
    THEN TreeOut("OSError", lfs, rfs, "none", "none", NoTemp, NoTemp)
    ELSE IF lfs[src].kind # "dir"
    THEN TreeOut("ValueError", lfs, rfs, "none", "none", NoTemp, NoTemp)
    ELSE LET root == PutRoot(rfs, src, dest, style)
             mk == mkdir_async(rfs, root, FALSE, style)
             po == payoff(lfs, mk.fs, override, src, style)
         IN  IF mk.result # "ok"
             THEN TreeOut(mk.result, lfs, rfs, "none", "none", NoTemp, NoTemp)
             ELSE IF ~po.ok
             THEN TreeOut(po.exc, lfs, mk.fs, "none", "none", NoTemp, NoTemp)
             ELSE IF po.value
             THEN puttreetar(lfs, mk.fs, check, src, root, tmp, fault, style)
             ELSE puttree_files(lfs, mk.fs, check, src, root, fault)

\* _gettreetar(remotepath, localpath)
gettreetar(lfs, rfs, check, src, root, tmp, fault, style) ==
    LET rtemp == JoinPath(TempDir, <<tmp>>)
        ltemp == JoinPath(root, <<tmp>>)
        r1 == AddFile(rfs, rtemp)             \* the client's compress
        l2 == AddFile(lfs, ltemp)             \* the download of getfile_async
        r2 == remove_async(r1, rtemp, style).fs
        \* tar -xf ... --strip-components=1 -C localpath
        l3 == CopyTree(rfs, src, l2, root, Descendants(rfs, src))
    IN  IF fault = "compress"
        THEN TreeOut("Exception", lfs, rfs, "tar", "compress", ltemp, rtemp)
        ELSE IF fault = "download"
        THEN TreeOut("Exception", lfs, r2, "tar", "download", ltemp, rtemp)
        ELSE IF fault = "checksum" /\ check
        THEN TreeOut("ValueError", l2, r2, "tar", "checksum", ltemp, rtemp)
        ELSE IF fault = "extract"
        THEN TreeOut("ok", Unlink(l2, ltemp), r2, "tar", "extract", ltemp, rtemp)
        ELSE TreeOut("ok", Unlink(l3, ltemp), r2, "tar", "none", ltemp, rtemp)

\* The loop of gettree_async over the recursive listing.
gettree_files(lfs, rfs, check, src, root, fault) ==
    LET files == FilesUnder(rfs, src)
        first == CHOOSE q \in files : \A o \in files : Len(q) <= Len(o)
    IN  IF files # {} /\ fault = "download"
        THEN TreeOut("Exception", lfs, rfs, "files", "download", NoTemp, NoTemp)
        ELSE IF files # {} /\ fault = "checksum" /\ check
        THEN TreeOut("ValueError", CopyTree(rfs, src, lfs, root, {first}), rfs,
                     "files", "checksum", NoTemp, NoTemp)
        ELSE TreeOut("ok", CopyTree(rfs, src, lfs, root, Descendants(rfs, src)), rfs,
                     "files", "none", NoTemp, NoTemp)

\* "this block is added only to mimick the behavior that aiida expects"
GetRoot(lfs, src, dest) ==
    IF dest \in DOMAIN lfs THEN JoinPath(dest, <<Name(src)>>) ELSE dest

gettree_async(lfs, rfs, override, check, src, dest, tmp, fault, style) ==
    IF dest \in DOMAIN lfs /\ lfs[dest].kind = "file"
    THEN TreeOut("OSError", lfs, rfs, "none", "none", NoTemp, NoTemp)
    ELSE IF ~IsDir(rfs, src, style)
    THEN TreeOut("OSError", lfs, rfs, "none", "none", NoTemp, NoTemp)
    ELSE LET root == GetRoot(lfs, src, dest)
             l0 == MkdirP(lfs, root)
             po == payoff(l0, rfs, override, src, style)
         IN  IF root \in DOMAIN lfs /\ lfs[root].kind # "dir"
             THEN TreeOut("FileExistsError", lfs, rfs, "none", "none", NoTemp, NoTemp)
             ELSE IF ~po.ok
             THEN TreeOut(po.exc, l0, rfs, "none", "none", NoTemp, NoTemp)
             ELSE IF po.value
             THEN gettreetar(l0, rfs, check, src, root, tmp, fault, style)
             ELSE gettree_files(l0, rfs, check, src, root, fault)

(***************************************************************************)
(* SpecTree: puttree and gettree called one after the other.               *)
(***************************************************************************)
PutFaults == {"none", "compress", "upload", "checksum", "extract"}
GetFaults == {"none", "compress", "download", "checksum", "extract"}

NoTree ==
    [n |-> 0, op |-> "none", src |-> <<>>, dest |-> <<>>, result |-> "none",
     strategy |-> "none", fault |-> "none", failed_at |-> "none",
     ltemp |-> NoTemp, rtemp |-> NoTemp, pre_local |-> EmptyFS, pre_remote |-> EmptyFS, override |-> "None"]

\* Either the local disk holds the tree to upload, or the server holds the
\* tree to download (and the local disk, maybe, a directory of the same
\* path).  The server always holds the temp directory.
TreeInit ==
    /\ \/ /\ local \in {TreeAt(LocalSrc, k, nested) :
                            k \in 0..MaxEntries, nested \in BOOLEAN}
          /\ remote = TreeAt(TempDir, 0, FALSE)
       \/ /\ local \in {EmptyFS, TreeAt(RemoteSrc, 0, FALSE)}
          /\ remote \in {Merge(TreeAt(RemoteSrc, r, nested), TreeAt(TempDir, 0, FALSE)) :
                            r \in 0..MaxEntries, nested \in BOOLEAN}
    /\ payoff_override = "None"
    /\ checksum_check \in BOOLEAN
    /\ tree = NoTree

\* payoff_override.setter
SetPayoffOverride ==
    /\ \E v \in {"True", "False"} : payoff_override' = v
    /\ UNCHANGED <<local, remote, checksum_check, tree, errVars, ioVars, last, moreVars>>

TreeRecord(op, src, dest, fault, out) ==
    /\ local' = out.local
    /\ remote' = out.remote
    /\ tree' = [n |-> tree.n + 1, op |-> op, src |-> src, dest |-> dest,
                result |-> out.result, strategy |-> out.strategy,
                fault |-> fault, failed_at |-> out.failed_at, ltemp |-> out.ltemp,
                rtemp |-> out.rtemp, pre_local |-> local, pre_remote |-> remote,
                override |-> payoff_override]
    /\ UNCHANGED <<payoff_override, checksum_check, errVars, ioVars, last, moreVars>>

PutTreeCall ==
    /\ tree.n < MaxCalls
    /\ \E fault \in PutFaults, st \in Styles :
        TreeRecord("puttree", LocalSrc, RemoteDest, fault,
            puttree_async(local, remote, payoff_override, checksum_check,
                          LocalSrc, RemoteDest, TempPool[tree.n + 1], fault, st))

GetTreeCall ==
    /\ tree.n < MaxCalls
    /\ \E fault \in GetFaults, st \in Styles :
        TreeRecord("gettree", RemoteSrc, LocalDest, fault,
            gettree_async(local, remote, payoff_override, checksum_check,
                          RemoteSrc, LocalDest, TempPool[tree.n + 1], fault, st))

TreeIdle ==
    /\ local = EmptyFS
    /\ payoff_override = "None"
    /\ checksum_check = FALSE
    /\ tree = NoTree

(***************************************************************************)
(* putfile_async / getfile_async with the checksum validation.  The        *)
(* admission gate around the transfer is SpecIO's; here a call is one      *)
(* step and what is kept is the remote calls it made, in order; a         *)
(* behaviour sets checksum_check as it likes and then makes one call.      *)
(***************************************************************************)
Contents == {"file1", "garbage"}

\* hashlib.sha256(...).hexdigest(): one digest per content.
Sha256(c) == IF c = "file1" THEN "c147efcf" ELSE "5e0b1f0a"

Algorithms == {"sha256", "SHA256", "md5"}

\* str.lower()
Lower(a) == IF a = "SHA256" THEN "sha256" ELSE a

XOut(result, why, calls) == [result |-> result, why |-> why, calls |-> calls]

\* What the validation meets: the answer of isfile_async, the local and the
\* remote content, the algorithm the server names, and whether the client's
\* checksum call raises.
Validations ==
    [isfile : {"True", "False", "PermissionError"}, lcontent : Contents,
     rcontent : Contents, algo : Algorithms, fails : BOOLEAN]

\* A validation that never compares the digests: the mutant of
\* validate_checksum_async.
validate_without_compare(v) ==
    IF v.isfile # "True" THEN XOut("FileNotFoundError", "none", <<"stat">>)
    ELSE XOut("ok", "none", <<"stat", "checksum">>)

\* _validate_checksum_async(localpath, remotepath)
validate_checksum_async(v) ==
    IF v.isfile = "False" THEN XOut("FileNotFoundError", "none", <<"stat">>)
    ELSE IF v.isfile # "True" THEN XOut(v.isfile, "none", <<"stat">>)
    ELSE IF v.fails THEN XOut("HeaderException", "none", <<"stat", "checksum">>)
    ELSE IF Lower(v.algo) # "sha256"
         THEN XOut("ValueError", "algorithm", <<"stat", "checksum">>)
    ELSE IF Sha256(v.lcontent) # Sha256(v.rcontent)
         THEN XOut("ValueError", "mismatch", <<"stat", "checksum">>)
    ELSE XOut("ok", "none", <<"stat", "checksum">>)

\* The end both methods share: `if self.checksum_check: await
\* self._validate_checksum_async(...)` after the calls made so far.
ThenValidate(check, calls, v) ==
    IF ~check THEN XOut("ok", "none", calls)
    ELSE LET r == validate_checksum_async(v)
         IN  XOut(r.result, r.why, calls \o r.calls)

\* The arguments of a call and what its first steps meet: the answer of the
\* probe (isfile_async of the source for getfile, isdir_async of the
\* destination for putfile), what the local source is (putfile), and what
\* the client's download / upload raises.
TransferFaults == {NoFailure, Hdr(<<"X-Permission-Denied">>), Hdr(<<"X-Size-Limit">>), Gen({})}

XferArgs ==
    [dereference : BOOLEAN, absolute : BOOLEAN,
     probe : {"True", "False", "PermissionError"},
     lkind : {"file", "dir", "missing"}, fault : TransferFaults]

getfile_async(check, a, v) ==
    IF ~a.dereference THEN XOut("NotImplementedError", "none", <<>>)
    ELSE IF ~a.absolute THEN XOut("ValueError", "none", <<>>)
    ELSE IF a.probe = "False" THEN XOut("FileNotFoundError", "none", <<"stat">>)
    ELSE IF a.probe # "True" THEN XOut(a.probe, "none", <<"stat">>)
    ELSE IF a.fault # NoFailure
         THEN XOut(ConvertHeaderExceptions(NoConvert, a.fault).type, "none",
                   <<"stat", "download">>)
    ELSE ThenValidate(check, <<"stat", "download">>, v)

putfile_async(check, a, v) ==
    IF ~a.dereference THEN XOut("NotImplementedError", "none", <<>>)
    ELSE IF ~a.absolute THEN XOut("ValueError", "none", <<>>)
    ELSE IF a.lkind = "missing" THEN XOut("FileNotFoundError", "none", <<>>)
    ELSE IF a.lkind # "file" THEN XOut("ValueError", "none", <<>>)
    ELSE IF a.probe = "True" THEN XOut("ValueError", "none", <<"stat">>)
    ELSE IF a.probe # "False" THEN XOut(a.probe, "none", <<"stat">>)
    ELSE IF a.fault # NoFailure
         THEN XOut(ConvertHeaderExceptions(NoConvert, a.fault).type, "none",
                   <<"stat", "upload">>)
    ELSE ThenValidate(check, <<"stat", "upload">>, v)

NoXferArgs ==
    [dereference |-> TRUE, absolute |-> TRUE, probe |-> "True", lkind |-> "file",
     fault |-> NoFailure]

NoValidation ==
    [isfile |-> "True", lcontent |-> "file1", rcontent |-> "file1",
     algo |-> "sha256", fails |-> FALSE]

NoXfer ==
    [op |-> "none", check |-> FALSE, args |-> NoXferArgs, met |-> NoValidation,
     result |-> "none", why |-> "none", calls |-> <<>>]

XferInit ==
    /\ xfer = NoXfer
    /\ checksum_check \in BOOLEAN
    /\ local = EmptyFS
    /\ payoff_override = "None"
    /\ tree = NoTree

xferFrame ==
    <<errVars, ioVars, fsVars, local, payoff_override, tree, sched, cp, gl, fcp, md, lg, hd>>

\* transport.checksum_check = value
SetChecksumCheck ==
    /\ \E b \in BOOLEAN : checksum_check' = b
    /\ UNCHANGED <<xfer, xferFrame>>

XferRecord(op, a, v, out) ==
    /\ xfer' = [op |-> op, check |-> checksum_check, args |-> a, met |-> v,
                result |-> out.result, why |-> out.why, calls |-> out.calls]
    /\ UNCHANGED <<checksum_check, xferFrame>>

GetfileCall ==
    /\ xfer.op = "none"
    /\ \E a \in XferArgs, v \in Validations :
            XferRecord("getfile", a, v, getfile_async(checksum_check, a, v))

PutfileCall ==
    /\ xfer.op = "none"
    /\ \E a \in XferArgs, v \in Validations :
            XferRecord("putfile", a, v, putfile_async(checksum_check, a, v))

XferIdle == xfer = NoXfer

(***************************************************************************)
(* FirecrestScheduler: get_jobs and kill_job against the server's list of  *)
(* active jobs.                                                            *)
(***************************************************************************)
MaxJobs == 4
MaxPage == 3

JobIds == 1..MaxJobs

\* _MAP_STATUS_SLURM
MAP_STATUS_SLURM ==
    [k \in {"CA", "CANCELLED", "CD", "COMPLETED", "CF", "CONFIGURING", "CG",
            "COMPLETING", "F", "FAILED", "NF", "NODE_FAIL", "PD", "PENDING",
            "PR", "PREEMPTED", "R", "RUNNING", "S", "SUSPENDED", "TO", "TIMEOUT"} |->
        IF k \in {"CF", "CONFIGURING", "PD", "PENDING"} THEN "QUEUED"
        ELSE IF k \in {"CG", "COMPLETING", "R", "RUNNING"} THEN "RUNNING"
        ELSE IF k \in {"S", "SUSPENDED"} THEN "SUSPENDED"
        ELSE "DONE"]

\* Raw state strings a record can carry: the keys of the table and strings
\* that are no key of it.
RawStates == DOMAIN MAP_STATUS_SLURM \cup {"QUEUED", "pending", "BOGUS", ""}

\* The states the server of the tests deals out, by position in the list.
MockStates ==
    <<"TIMEOUT", "SUSPENDED", "PREEMPTED", "CANCELLED", "NODE_FAIL", "PENDING",
      "FAILED", "RUNNING", "CONFIGURING", "QUEUED", "COMPLETED", "COMPLETING">>

\* The annotations that make a queued job a held one, and the reasons Slurm
\* has for a pending job.
HeldReasons == {"Dependency", "JobHeldUser", "JobHeldAdmin", "BeginTime"}
Reasons == HeldReasons \cup {"None", "Priority"}

Owner(j) == IF j % 2 = 1 THEN "me" ELSE "other"

\* One record of the poll that differs from what the mock deals out: its
\* place in the list (0: none), its raw state and Slurm's reason for it.
OddRecords ==
    {[at |-> k, state |-> st, reason |-> "None"] : k \in 0..MaxJobs, st \in RawStates}
    \cup
    {[at |-> k, state |-> st, reason |-> r] :
        k \in 1..MaxJobs, st \in {"PD", "PENDING", "CF", "CONFIGURING"}, r \in Reasons}

NoOdd == [at |-> 0, state |-> "", reason |-> "None"]

\* The server's records for the jobs asked for.
Records(jobs, odd) ==
    [i \in 1..Len(jobs) |->
        [jobid  |-> jobs[i],
         state  |-> IF i = odd.at THEN odd.state ELSE MockStates[((i - 1) % 12) + 1],
         user   |-> Owner(jobs[i]),
         reason |-> IF i = odd.at THEN odd.reason ELSE "None"]]

\* What the client raises during a poll: at which page request, and what.
PollMarks == {"Invalid job id", "Job not found", "cannot statx"}
NoPollFault == [page |-> -1, cls |-> "none", headers |-> <<>>, msg |-> {}]
InvalidJobId == [cls |-> "FirecrestException", headers |-> <<>>, msg |-> {"Invalid job id"}]
PollFaults ==
    {[page |-> n, cls |-> c, headers |-> <<>>, msg |-> m] :
        n \in 0..MaxJobs, c \in {"FirecrestException", "Exception"},
        m \in SUBSET PollMarks}

\* convert_header_exceptions({"machine": transport._machine})
SchedConvert == [h \in {"machine"} |-> "str"]

\* A loop that also stops on an exactly full page: the mutant of ShortPage.
ShortPageOrFull(n, size, page_iter) == n <= size * (page_iter + 1)

\* A loop that compares with the pages asked before this one.
ShortPageOfEarlier(n, size, page_iter) == n < size * page_iter

\* if len(results) < self._DEFAULT_PAGE_SIZE * (page_iter + 1): break
ShortPage(n, size, page_iter) == n < size * (page_iter + 1)

Min(a, b) == IF a < b THEN a ELSE b

\* for page_iter in itertools.count(): results += poll_active(...)
RECURSIVE PollPages(_, _, _, _, _, _, _)
PollPages(active, jobs, recs, size, page_iter, results, fault) ==
    LET asked == [i \in 1..(page_iter + 1) |-> i - 1]
    IN  IF fault.page = page_iter
        THEN [results |-> results, pages |-> asked,
              exc |-> [cls |-> fault.cls, headers |-> fault.headers, msg |-> fault.msg]]
        ELSE IF \E i \in 1..Len(jobs) : jobs[i] \notin active
        THEN [results |-> results, pages |-> asked, exc |-> InvalidJobId]
        ELSE LET got == results \o SubSeq(recs, page_iter * size + 1,
                                          Min((page_iter + 1) * size, Len(recs)))
             IN  IF ShortPage(Len(got), size, page_iter)
                 THEN [results |-> got, pages |-> asked,
                       exc |-> [cls |-> "none", headers |-> <<>>, msg |-> {}]]
                 ELSE PollPages(active, jobs, recs, size, page_iter + 1, got, fault)

\* A table that takes an unknown state for a finished job: the mutant of
\* JobStateOf.
JobStateUnknownAsDone(raw) ==
    IF raw.state \in DOMAIN MAP_STATUS_SLURM THEN MAP_STATUS_SLURM[raw.state]
    ELSE "DONE"

\* The state of one record: the table, UNDETERMINED on KeyError, and
\* QUEUED_HELD for a queued job whose annotation is a held reason (the
\* annotation of every JobInfo is set to "").
JobStateOf(raw) ==
    LET annotation == ""
        job_state_string ==
            IF raw.state \in DOMAIN MAP_STATUS_SLURM THEN MAP_STATUS_SLURM[raw.state]
            ELSE "UNDETERMINED"
    IN  IF job_state_string = "QUEUED" /\ annotation \in HeldReasons
        THEN "QUEUED_HELD"
        ELSE job_state_string

\* for raw_result in results: ... job_list.append(this_job)
RECURSIVE JobList(_, _)
JobList(results, user) ==
    IF results = <<>> THEN <<>>
    ELSE LET raw == Head(results)
         IN  IF user # "None" /\ raw.user # user THEN JobList(Tail(results), user)
             ELSE <<[job_id |-> raw.jobid, job_state |-> JobStateOf(raw),
                     raw_data |-> raw]>> \o JobList(Tail(results), user)

GOut(result, job_list, pages) == [result |-> result, job_list |-> job_list, pages |-> pages]

get_jobs(active, size, jobs, user, odd, fault) ==
    LET loop == PollPages(active, jobs, Records(jobs, odd), size, 0, <<>>, fault)
        e == loop.exc
    IN  IF e.cls = "none" \/ (e.cls = "FirecrestException" /\ "Invalid job id" \in e.msg)
        THEN GOut("ok", JobList(loop.results, user), loop.pages)
        ELSE IF e.cls = "FirecrestException"
        THEN GOut(ConvertHeaderExceptions(SchedConvert,
                      [cls |-> "SchedulerError", headers |-> <<>>, msg |-> e.msg]).type,
                  <<>>, loop.pages)
        ELSE GOut(ConvertHeaderExceptions(SchedConvert, e).type, <<>>, loop.pages)

NoSched ==
    [active |-> {}, page_size |-> 1, op |-> "none", jobs |-> <<>>, user |-> "None",
     odd |-> NoOdd, fault |-> NoPollFault, result |-> "none", job_list |-> <<>>,
     pages |-> <<>>]

\* The jobs of the test are submitted; _DEFAULT_PAGE_SIZE is what the caller
\* set it to.
SchedInit ==
    \E size \in 1..MaxPage :
        sched = [NoSched EXCEPT !.active = JobIds, !.page_size = size]

schedFrame == <<errVars, ioVars, fsVars, treeVars, xfer, cp, gl, fcp, md, lg, hd>>

\* kill_job(jobid), and the cancel taking effect on the server.
KillJob ==
    /\ sched.op # "get_jobs"
    /\ \E j \in sched.active :
        sched' = [sched EXCEPT !.active = sched.active \ {j}, !.op = "kill_job"]
    /\ UNCHANGED schedFrame

SchedRecord(jobs, user, odd, fault, out) ==
    /\ sched' = [sched EXCEPT !.op = "get_jobs", !.jobs = jobs, !.user = user,
                              !.odd = odd, !.fault = fault, !.result = out.result,
                              !.job_list = out.job_list, !.pages = out.pages]
    /\ UNCHANGED schedFrame

\* get_jobs(jobs=[1..n], user) answered by the server.
GetJobsCall ==
    /\ sched.op # "get_jobs"
    /\ \E n \in 0..MaxJobs, user \in {"None", "me"} :
        \E odd \in {o \in OddRecords : o.at <= n} :
            LET jobs == [i \in 1..n |-> i]
            IN  SchedRecord(jobs, user, odd, NoPollFault,
                    get_jobs(sched.active, sched.page_size, jobs, user, odd, NoPollFault))

\* get_jobs during which the client raises at some page request.
GetJobsFails ==
    /\ sched.op # "get_jobs"
    /\ \E n \in 0..MaxJobs, user \in {"None", "me"}, fault \in PollFaults :
            LET jobs == [i \in 1..n |-> i]
            IN  SchedRecord(jobs, user, NoOdd, fault,
                    get_jobs(sched.active, sched.page_size, jobs, user, NoOdd, fault))

(***************************************************************************)
(* copyfile_async / copytree_async / copy_async: the copies made on the    *)
(* remote side through the client's cp.                                    *)
(***************************************************************************)
\* The remote trees a copy starts from: s is a directory holding the file
\* s/f and the link s/k to it, or a file, or missing; k is a link to s; t
\* is a directory, a file or missing.
CpS   == <<"s">>
CpSF  == <<"s", "f">>
CpSK  == <<"s", "k">>
CpK   == <<"k">>
CpT   == <<"t">>
CpN   == <<"n">>

CpTree(skind, k, tkind) ==
    LET sPart == CASE skind = "dir" ->
                        (CpS :> DirNode) @@ (CpSF :> FileNode) @@ (CpSK :> LinkNode(CpSF))
                   [] skind = "emptydir" -> (CpS :> DirNode)
                   [] skind = "file" -> (CpS :> FileNode)
                   [] OTHER -> EmptyFS
        kPart == IF k THEN (CpK :> LinkNode(CpS)) ELSE EmptyFS
        tPart == CASE tkind = "dir" -> (CpT :> DirNode)
                   [] tkind = "file" -> (CpT :> FileNode)
                   [] OTHER -> EmptyFS
    IN  sPart @@ kPart @@ tPart

CpTrees ==
    {CpTree(sk, k, tk) : sk \in {"dir", "emptydir", "file", "missing"},
                         k \in BOOLEAN, tk \in {"dir", "file", "missing"}}

\* has_magic(path): the path holds a wildcard.
has_magic(p) == \E i \in 1..Len(p) : p[i] = "*"

CpSources      == {CpS, CpSF, CpSK, CpK, CpN, <<"s", "*">>}
CpDestinations == {CpT, CpN, <<"t", "n">>}

\* The dereference argument as the caller gives it: left out, True or False.
DerefArgs == {"default", "True", "False"}

\* A copy that never hands dereference=True to the client.
CopyNeverDereferences(arg) == FALSE

\* dereference: bool = False in the three signatures.
CopyDereference(arg) == IF arg = "default" THEN FALSE ELSE arg = "True"

\* What the server's `cp -r` puts at `root` for the node at p: a link stays a
\* link unless the copy dereferences, a directory comes with what is under it.
RECURSIVE CpImage(_, _, _, _)
CpImage(fs, p, root, dereference) ==
    IF p \notin DOMAIN fs THEN EmptyFS
    ELSE IF fs[p].kind = "link"
         THEN IF dereference
              THEN CpImage(fs, fs[p].target, root, dereference)
              ELSE (root :> fs[p])
    ELSE IF fs[p].kind = "file" THEN (root :> FileNode)
    ELSE LET kids == Children(fs, p)
             Sub(q) == CpImage(fs, q, Append(root, Name(q)), dereference)
             RECURSIVE All(_)
             All(S) == IF S = {} THEN EmptyFS
                       ELSE LET q == CHOOSE r \in S : TRUE
                            IN  Sub(q) @@ All(S \ {q})
         IN  (root :> DirNode) @@ All(kids)

\* Following the links under p leads back into a directory being copied:
\* a dereferencing `cp -r` cannot finish such a tree.
RECURSIVE CpLoops(_, _, _)
CpLoops(fs, p, entered) ==
    IF p \notin DOMAIN fs \/ fs[p].kind = "file" THEN FALSE
    ELSE IF fs[p].kind = "link" THEN CpLoops(fs, fs[p].target, entered)
    ELSE p \in entered
         \/ \E q \in Children(fs, p) : CpLoops(fs, q, entered \cup {p})

\* async_client.cp(source, target, dereference): `cp -r` on the server.  It
\* copies into target when target is a directory, and fails when the source
\* is missing, the target's directory is missing, the links to follow run
\* in a circle, or a directory would land on a file.
ClientCp(fs, source, target, dereference) ==
    LET into == Stat(fs, target, TRUE) = "dir"
        root == IF into THEN Append(Resolve(fs, target), Name(source)) ELSE target
        image == CpImage(fs, source, root, dereference)
    IN  IF Stat(fs, source, dereference) = "missing"
        THEN [failure |-> SrvFailure("cp", "notfound", "header"), fs |-> fs]
        ELSE IF dereference /\ CpLoops(fs, source, {})
        THEN [failure |-> Gen({}), fs |-> fs]
        ELSE IF Stat(fs, Parent(root), TRUE) # "dir"
        THEN [failure |-> SrvFailure("cp", "notfound", "header"), fs |-> fs]
        ELSE IF image[root].kind = "dir" /\ Stat(fs, root, FALSE) \in {"file", "link"}
        THEN [failure |-> Gen({}), fs |-> fs]
        ELSE [failure |-> NoFailure, fs |-> Merge(fs, image)]

CpCall(source, target, dereference) ==
    [source |-> source, target |-> target, dereference |-> dereference]

COut(result, fs, calls) == [result |-> result, fs |-> fs, calls |-> calls]

\* _copy_to: the client's cp inside convert_header_exceptions().
copy_to(fs, source, target, dereference) ==
    LET r == ClientCp(fs, source, target, dereference)
    IN  COut(IF r.failure = NoFailure THEN "ok"
             ELSE ConvertHeaderExceptions(NoConvert, r.failure).type,
             r.fs, <<CpCall(source, target, dereference)>>)

\* copyfile_async without the test that the source is a file.
copyfile_any_source(fs, source, destination, dereference, style) ==
    IF ~PathExists(fs, source, style) THEN COut("FileNotFoundError", fs, <<>>)
    ELSE copy_to(fs, source, destination, dereference)

copyfile_async(fs, source, destination, dereference, style) ==
    IF ~PathExists(fs, source, style) THEN COut("FileNotFoundError", fs, <<>>)
    ELSE IF ~IsFile(fs, source, style) THEN COut("ValueError", fs, <<>>)
    ELSE IF ~PathExists(fs, destination, style) /\ ~IsFile(fs, source, style)
         THEN COut("FileNotFoundError", fs, <<>>)
    ELSE copy_to(fs, source, destination, dereference)

copytree_async(fs, source, destination, dereference, style) ==
    IF ~PathExists(fs, source, style) THEN COut("FileNotFoundError", fs, <<>>)
    ELSE IF ~IsDir(fs, source, style) THEN COut("ValueError", fs, <<>>)
    ELSE IF ~PathExists(fs, destination, style)
         THEN COut("FileNotFoundError", fs, <<>>)
    ELSE copy_to(fs, source, destination, dereference)

\* The order listdir gives the names of a directory in.
NameOrder == <<"a", "b", "d", "e", "f", "k", "n", "s", "t">>

\* glob1(dirname, "*"): the names listdir gives, those with a leading dot
\* left out (the trees here hold none).
glob1(fs, dirname, style) ==
    LET r == listdir_async(fs, dirname, style)
    IN  IF r.ok THEN SelectSeq(NameOrder, LAMBDA n : n \in r.value) ELSE <<>>

\* iglob_async(pathname), for a pathname whose last component alone can be
\* the wildcard.
iglob_async(fs, pathname, style) ==
    IF ~has_magic(pathname)
    THEN IF PathExists(fs, pathname, style) THEN <<pathname>> ELSE <<>>
    ELSE LET dirname == Parent(pathname)
             names == IF IsDir(fs, dirname, style) THEN glob1(fs, dirname, style)
                      ELSE <<>>
         IN  [i \in 1..Len(names) |-> Append(dirname, names[i])]

\* remotedestination + filename: the two strings put end to end, no
\* separator between them.
PlusFilename(destination, filename) ==
    IF filename = "" \/ destination = <<>> THEN destination
    ELSE Append(Parent(destination), Name(destination) \o filename)

\* copy_async for a source without wildcard.
copy_one(fs, source, destination, dereference, recursive, style) ==
    IF ~recursive THEN COut("NotImplementedError", fs, <<>>)
    ELSE IF ~PathExists(fs, source, style) THEN COut("FileNotFoundError", fs, <<>>)
    ELSE IF ~PathExists(fs, destination, style) /\ ~IsFile(fs, source, style)
         THEN COut("FileNotFoundError", fs, <<>>)
    ELSE copy_to(fs, source, destination, dereference)

\* The loop of copy_async over what the pattern matched: one copy_async per
\* item, the first that raises ending the loop.
RECURSIVE CopyItems(_, _, _, _, _, _, _)
CopyItems(fs, items, i, destination, dereference, style, calls) ==
    IF i > Len(items) THEN COut("ok", fs, calls)
    ELSE LET filename == IF IsFile(fs, items[i], style) THEN Name(items[i]) ELSE ""
             one == copy_one(fs, items[i], PlusFilename(destination, filename),
                             dereference, TRUE, style)
         IN  CHOOSE out \in
                {IF r.result # "ok" THEN COut(r.result, r.fs, calls \o r.calls)
                 ELSE CopyItems(r.fs, items, i + 1, destination, dereference, style,
                                calls \o r.calls) : r \in {one}} : TRUE

copy_async(fs, source, destination, dereference, recursive, style) ==
    IF ~recursive THEN COut("NotImplementedError", fs, <<>>)
    ELSE IF has_magic(source)
    THEN CopyItems(fs, iglob_async(fs, source, style), 1, destination,
                   dereference, style, <<>>)
    ELSE copy_one(fs, source, destination, dereference, recursive, style)

\* A call of the copy family: the verb, its arguments, the remote tree before
\* and after it, its result and the cp calls it issued.
NoCp ==
    [op |-> "none", source |-> <<>>, destination |-> <<>>, dereference |-> "default",
     pre |-> EmptyFS, post |-> EmptyFS, result |-> "none", calls |-> <<>>,
     n |-> 0]

\* The copies a behaviour makes one after the other.
MaxCopies == 2

CopyInit ==
    \E fs \in CpTrees : cp = [NoCp EXCEPT !.pre = fs, !.post = fs]

copyFrame == <<errVars, ioVars, fsVars, treeVars, xfer, sched, gl, fcp, md, lg, hd>>

CopyRecord(op, source, destination, arg, out) ==
    /\ cp.n < MaxCopies
    /\ cp.op = "none" \/ cp.result = "ok"
    /\ cp' = [op |-> op, source |-> source, destination |-> destination,
              dereference |-> arg, pre |-> cp.post, post |-> out.fs,
              result |-> out.result, calls |-> out.calls, n |-> cp.n + 1]
    /\ UNCHANGED copyFrame

CopyfileCall ==
    \E s \in CpSources \ {<<"s", "*">>}, d \in CpDestinations, a \in DerefArgs,
       st \in Styles :
        CopyRecord("copyfile", s, d, a,
                   copyfile_async(cp.post, s, d, CopyDereference(a), st))

CopytreeCall ==
    \E s \in CpSources \ {<<"s", "*">>}, d \in CpDestinations, a \in DerefArgs,
       st \in Styles :
        CopyRecord("copytree", s, d, a,
                   copytree_async(cp.post, s, d, CopyDereference(a), st))

CopyCall ==
    \E s \in CpSources, d \in CpDestinations, a \in DerefArgs, st \in Styles :
        CopyRecord("copy", s, d, a,
                   copy_async(cp.post, s, d, CopyDereference(a), TRUE, st))

CopyNotRecursive ==
    \E s \in CpSources, d \in CpDestinations, a \in DerefArgs, st \in Styles :
        CopyRecord("copy_flat", s, d, a,
                   copy_async(cp.post, s, d, CopyDereference(a), FALSE, st))

CpIdle == cp = NoCp

(***************************************************************************)
(* put_async / get_async: one path or a wildcard pattern, handed on to     *)
(* putfile, puttree, getfile and gettree.                                  *)
(***************************************************************************)
\* The working directory w holds, on the local disk and on the server, any
\* of the files a and b and the directory d with its file d/e.  r is the
\* remote directory uploads go to, o the local one downloads go to.
GlW == <<"w">>
GlR == <<"r">>
GlO == <<"o">>

GlWork(names) ==
    LET paths == {GlW} \cup {<<"w", n>> : n \in names}
                 \cup (IF "d" \in names THEN {<<"w", "d", "e">>} ELSE {})
    IN  [q \in paths |-> IF q \in {GlW, <<"w", "d">>} THEN DirNode ELSE FileNode]

GlNames == {"a", "b", "d"}

GlLocals  == {GlWork(ns) @@ (GlO :> DirNode) : ns \in SUBSET GlNames}
GlRemotes ==
    {GlWork(ns) @@ (GlR :> DirNode) @@ (TempDir :> DirNode) : ns \in SUBSET GlNames}
    \cup {(GlR :> DirNode) @@ (TempDir :> DirNode)}

\* A path given with a trailing separator ends in an empty component; Path()
\* and the server drop it.
NormPath(p) == IF p # <<>> /\ p[Len(p)] = "" THEN SubSeq(p, 1, Len(p) - 1) ELSE p

GlSources == {<<"w", "*">>, <<"w", "a">>, <<"w", "d">>, <<"w", "b">>}
GlPutDestinations == {GlR, <<"r", "">>}
GlGetDestinations == {GlO, <<"o", "">>}

Transfer(verb, source, destination) ==
    [verb |-> verb, source |-> source, destination |-> destination]

GlOut(result, lfs, rfs, transfers) ==
    [result |-> result, local |-> lfs, remote |-> rfs, transfers |-> transfers]

\* putfile_async(localpath, remotepath) on the two trees: the upload needs
\* the directory of the remote path.
PutfileOn(lfs, rfs, source, destination, style) ==
    LET dst == NormPath(destination)
        a == [dereference |-> TRUE, absolute |-> TRUE,
              probe |-> isdir_async(rfs, dst, StatNatural(rfs, dst, TRUE, style)),
              lkind |-> IF source \in DOMAIN lfs THEN lfs[source].kind ELSE "missing",
              fault |-> IF Stat(rfs, Parent(dst), TRUE) = "dir" THEN NoFailure
                        ELSE Hdr(<<"X-Invalid-Path">>)]
        r == putfile_async(FALSE, a, NoValidation)
    IN  GlOut(r.result, lfs, IF r.result = "ok" THEN AddFile(rfs, dst) ELSE rfs,
              <<Transfer("putfile", source, dst)>>)

\* getfile_async(remotepath, localpath) on the two trees: the download
\* writes the local file, which cannot be a directory.
GetfileOn(lfs, rfs, source, destination, style) ==
    LET dst == NormPath(destination)
        a == [dereference |-> TRUE, absolute |-> TRUE,
              probe |-> isfile_async(rfs, source, StatNatural(rfs, source, TRUE, style)),
              lkind |-> "file", fault |-> NoFailure]
        r == getfile_async(FALSE, a, NoValidation)
        writable == /\ Stat(lfs, Parent(dst), TRUE) = "dir"
                    /\ Stat(lfs, dst, TRUE) # "dir"
    IN  IF r.result = "ok" /\ ~writable
        THEN GlOut("OSError", lfs, rfs, <<Transfer("getfile", source, dst)>>)
        ELSE GlOut(r.result, IF r.result = "ok" THEN AddFile(lfs, dst) ELSE lfs, rfs,
                   <<Transfer("getfile", source, dst)>>)

PuttreeOn(lfs, rfs, source, destination, style) ==
    LET dst == NormPath(destination)
        r == puttree_async(lfs, rfs, "None", FALSE, source, dst, TempPool[1],
                           "none", style)
    IN  GlOut(r.result, r.local, r.remote, <<Transfer("puttree", source, dst)>>)

GettreeOn(lfs, rfs, source, destination, style) ==
    LET dst == NormPath(destination)
        r == gettree_async(lfs, rfs, "None", FALSE, source, dst, TempPool[1],
                           "none", style)
    IN  GlOut(r.result, r.local, r.remote, <<Transfer("gettree", source, dst)>>)

\* put_async for a localpath without wildcard.
put_one(lfs, rfs, localpath, remotepath, ignore_nonexisting, style) ==
    IF localpath \notin DOMAIN lfs /\ ~ignore_nonexisting
    THEN GlOut("FileNotFoundError", lfs, rfs, <<>>)
    ELSE IF localpath \in DOMAIN lfs /\ lfs[localpath].kind = "dir"
    THEN PuttreeOn(lfs, rfs, localpath, remotepath, style)
    ELSE IF localpath \in DOMAIN lfs /\ lfs[localpath].kind = "file"
    THEN PutfileOn(lfs, rfs, localpath, remotepath, style)
    ELSE GlOut("ok", lfs, rfs, <<>>)

\* get_async for a remotepath without wildcard.
get_one(lfs, rfs, remotepath, localpath, ignore_nonexisting, style) ==
    IF IsDir(rfs, remotepath, style)
    THEN GettreeOn(lfs, rfs, remotepath, localpath, style)
    ELSE IF IsFile(rfs, remotepath, style)
    THEN GetfileOn(lfs, rfs, remotepath, localpath, style)
    ELSE IF ~ignore_nonexisting THEN GlOut("FileNotFoundError", lfs, rfs, <<>>)
    ELSE GlOut("ok", lfs, rfs, <<>>)

\* The loop over what iglob_async gave: one put_async / get_async per item,
\* the file name glued to the destination when the item is a file on the
\* server; the first call that raises ends the loop.
RECURSIVE TransferItems(_, _, _, _, _, _, _, _, _)
TransferItems(verb, lfs, rfs, items, i, destination, ignore_nonexisting, style, transfers) ==
    IF i > Len(items) THEN GlOut("ok", lfs, rfs, transfers)
    ELSE LET filename == IF IsFile(rfs, items[i], style) THEN Name(items[i]) ELSE ""
             dst == PlusFilename(destination, filename)
             one == IF verb = "put"
                    THEN put_one(lfs, rfs, items[i], dst, ignore_nonexisting, style)
                    ELSE get_one(lfs, rfs, items[i], dst, ignore_nonexisting, style)
         IN  CHOOSE out \in
                {IF r.result # "ok"
                 THEN GlOut(r.result, r.local, r.remote, transfers \o r.transfers)
                 ELSE TransferItems(verb, r.local, r.remote, items, i + 1,
                                    destination, ignore_nonexisting, style,
                                    transfers \o r.transfers) : r \in {one}} : TRUE

\* `self.iglob_async(localpath)` in put_async: the transport's own glob,
\* which asks the server.
PutGlob(lfs, rfs, pathname, style) == iglob_async(rfs, pathname, style)

put_async(lfs, rfs, localpath, remotepath, ignore_nonexisting, dereference, style) ==
    IF ~dereference THEN GlOut("NotImplementedError", lfs, rfs, <<>>)
    ELSE IF has_magic(localpath)
    THEN TransferItems("put", lfs, rfs, PutGlob(lfs, rfs, localpath, style), 1,
                       remotepath, ignore_nonexisting, style, <<>>)
    ELSE put_one(lfs, rfs, localpath, remotepath, ignore_nonexisting, style)

get_async(lfs, rfs, remotepath, localpath, ignore_nonexisting, style) ==
    IF IsDir(rfs, remotepath, style) \/ IsFile(rfs, remotepath, style)
    THEN get_one(lfs, rfs, remotepath, localpath, ignore_nonexisting, style)
    ELSE IF has_magic(remotepath)
    THEN TransferItems("get", lfs, rfs, iglob_async(rfs, remotepath, style), 1,
                       localpath, ignore_nonexisting, style, <<>>)
    ELSE get_one(lfs, rfs, remotepath, localpath, ignore_nonexisting, style)

\* A call of put or get: its arguments, the two trees before and after it,
\* its result and the transfers it handed on, in order.
NoGl ==
    [op |-> "none", source |-> <<>>, destination |-> <<>>,
     ignore_nonexisting |-> FALSE, lpre |-> EmptyFS, rpre |-> EmptyFS,
     local |-> EmptyFS, remote |-> EmptyFS, result |-> "none", transfers |-> <<>>]

GlobInit ==
    \E lfs \in GlLocals, rfs \in GlRemotes :
        gl = [NoGl EXCEPT !.lpre = lfs, !.rpre = rfs, !.local = lfs, !.remote = rfs]

globFrame == <<errVars, ioVars, fsVars, treeVars, xfer, sched, cp, fcp, md, lg, hd>>

GlobRecord(op, source, destination, ign, out) ==
    /\ gl.op = "none"
    /\ gl' = [op |-> op, source |-> source, destination |-> destination,
              ignore_nonexisting |-> ign, lpre |-> gl.local, rpre |-> gl.remote,
              local |-> out.local, remote |-> out.remote, result |-> out.result,
              transfers |-> out.transfers]
    /\ UNCHANGED globFrame

PutCall ==
    \E s \in GlSources, d \in GlPutDestinations, ign \in BOOLEAN,
       deref \in BOOLEAN, st \in Styles :
        GlobRecord("put", s, d, ign,
                   put_async(gl.local, gl.remote, s, d, ign, deref, st))

GetCall ==
    \E s \in GlSources, d \in GlGetDestinations, ign \in BOOLEAN, st \in Styles :
        GlobRecord("get", s, d, ign,
                   get_async(gl.local, gl.remote, s, d, ign, st))

GlIdle == gl = NoGl

(***************************************************************************)
(* FcPath: the probes of one path object and its ModeCache.                *)
(***************************************************************************)
\* What the server holds at the path of the object: nothing, a file, a
\* directory, or a link to one of them or to nothing.
FcRemotes ==
    {[kind |-> k, target |-> "none"] : k \in {"missing", "file", "dir"}}
    \cup {[kind |-> "link", target |-> t] : t \in {"missing", "file", "dir"}}

\* The file type in the mode the server's stat answers with.
FcMode(node, dereference) ==
    IF node.kind = "link" /\ dereference THEN node.target ELSE node.kind

\* ModeCache: st_mode and lst_mode, None until known.
ModeCache(lst_mode, st_mode) == [lst_mode |-> lst_mode, st_mode |-> st_mode]

\* ModeCache.reset()
CacheReset == ModeCache("None", "None")

FcFaults == {NoFailure, Hdr(<<"X-Permission-Denied">>)}

\* stat() / lstat(): one call of the client inside convert_header_exceptions.
FcStat(node, dereference, fault) ==
    IF fault # NoFailure THEN Raises(ConvertHeaderExceptions(NoConvert, fault).type)
    ELSE IF FcMode(node, dereference) = "missing" THEN Raises("FileNotFoundError")
    ELSE Ok(FcMode(node, dereference))

ModeOut(r, cache, calls) == [r |-> r, cache |-> cache, calls |-> calls]

\* _lstat_mode that keeps what it learns to lst_mode alone.
lstat_mode_only(enabled, cache, node, fault) ==
    IF enabled /\ cache.lst_mode # "None" THEN ModeOut(Ok(cache.lst_mode), cache, 0)
    ELSE LET r == FcStat(node, FALSE, fault)
         IN  IF ~r.ok THEN ModeOut(r, cache, 1)
             ELSE ModeOut(r, [cache EXCEPT !.lst_mode = r.value], 1)

\* _lstat_mode()
lstat_mode(enabled, cache, node, fault) ==
    IF enabled /\ cache.lst_mode # "None" THEN ModeOut(Ok(cache.lst_mode), cache, 0)
    ELSE LET r == FcStat(node, FALSE, fault)
         IN  IF ~r.ok THEN ModeOut(r, cache, 1)
             ELSE IF r.value # "link"
             THEN ModeOut(r, ModeCache(r.value, r.value), 1)
             ELSE ModeOut(r, [cache EXCEPT !.lst_mode = r.value], 1)

\* _stat_mode()
stat_mode(enabled, cache, node, fault) ==
    IF enabled /\ cache.st_mode # "None" THEN ModeOut(Ok(cache.st_mode), cache, 0)
    ELSE LET r == FcStat(node, TRUE, fault)
         IN  IF ~r.ok THEN ModeOut(r, cache, 1)
             ELSE ModeOut(r, [cache EXCEPT !.st_mode = r.value], 1)

\* is_dir / is_file / is_symlink: FileNotFoundError becomes False, the type
\* test is applied to the mode.
FcProbes == {"is_dir", "is_file", "is_symlink"}

ProbeKind(op) ==
    CASE op = "is_dir" -> "dir" [] op = "is_file" -> "file" [] op = "is_symlink" -> "link"

FcProbe(op, enabled, cache, node, fault) ==
    LET m == IF op = "is_symlink" THEN lstat_mode(enabled, cache, node, fault)
             ELSE stat_mode(enabled, cache, node, fault)
        answer == IF m.r.ok THEN Bool(m.r.value = ProbeKind(op))
                  ELSE IF m.r.exc = "FileNotFoundError" THEN "False"
                  ELSE m.r.exc
    IN  [result |-> answer, cache |-> m.cache, calls |-> m.calls,
         shown |-> op = "is_symlink" /\ m.r.ok /\ m.r.value # "link"]

\* The object: whether it caches, its cache, what the server holds at its
\* path, the last call with its result and the number of remote calls it
\* made; and, for the record, whether an is_symlink has so far shown the
\* path to be no link (`shown`), whether the cache has been reset since
\* (`reset`), and both as they were when the last call began; whether the
\* last call changed the path (`changed`), and the call before it.
NoFcp ==
    [cache_enabled |-> FALSE, cache |-> CacheReset,
     node |-> [kind |-> "missing", target |-> "none"],
     op |-> "none", result |-> "none", calls |-> 0, enabled_at_call |-> FALSE,
     shown |-> FALSE, reset |-> FALSE, shown_before |-> FALSE,
     reset_before |-> FALSE, changed |-> FALSE, changed_before |-> FALSE]

\* FcPath(...): an empty cache, or for a path that iterdir yielded the modes
\* of the listing.
FcPathInit ==
    \E node \in FcRemotes, en \in BOOLEAN, listed \in BOOLEAN :
        /\ listed => node.kind # "missing"
        /\ fcp = [NoFcp EXCEPT
                    !.cache_enabled = en, !.node = node,
                    !.cache = IF listed
                              THEN ModeCache(node.kind,
                                             IF node.kind # "link" THEN node.kind
                                             ELSE "None")
                              ELSE CacheReset]

fcpFrame == <<errVars, ioVars, fsVars, treeVars, xfer, sched, cp, gl, md, lg, hd>>

\* The call changed the path on the server through this object: a chmod
\* that returned, or an unlink / rmtree / rename that took the path away.
FcChanged(op, result, node) ==
    \/ op = "chmod" /\ result = "ok"
    \/ op \in {"unlink", "rmtree", "rename"} /\ node # fcp.node

FcCall(op, result, cache, calls, shown, reset, node, enabled) ==
    /\ fcp' = [cache_enabled |-> enabled, cache |-> cache, node |-> node,
               op |-> op, result |-> result, calls |-> calls,
               enabled_at_call |-> fcp.cache_enabled,
               shown |-> shown, reset |-> reset,
               shown_before |-> fcp.shown, reset_before |-> fcp.reset,
               changed |-> FcChanged(op, result, node), changed_before |-> fcp.changed]
    /\ UNCHANGED fcpFrame

ProbeCall ==
    \E op \in FcProbes, fault \in FcFaults :
        LET out == FcProbe(op, fcp.cache_enabled, fcp.cache, fcp.node, fault)
        IN  FcCall(op, out.result, out.cache, out.calls,
                   fcp.shown \/ out.shown, fcp.reset /\ ~out.shown,
                   fcp.node, fcp.cache_enabled)

\* cache_enabled = value / enable_cache()
SetCacheEnabled ==
    \E value \in BOOLEAN :
        FcCall("cache_enabled", "ok", fcp.cache, 0, fcp.shown, fcp.reset,
               fcp.node, value)

\* clear_cache()
ClearCache ==
    FcCall("clear_cache", "ok", CacheReset, 0, fcp.shown, fcp.shown,
           fcp.node, fcp.cache_enabled)

\* chmod(mode): the client's chmod, the cache reset once it has returned.
ChmodCall ==
    \E fault \in FcFaults :
        LET missing == FcMode(fcp.node, TRUE) = "missing"
            exc == IF fault # NoFailure
                   THEN ConvertHeaderExceptions(ChmodConvert, fault).type
                   ELSE "FileNotFoundError"
            done == fault = NoFailure /\ ~missing
        IN  FcCall("chmod", IF done THEN "ok" ELSE exc,
                   IF done THEN CacheReset ELSE fcp.cache, 1,
                   fcp.shown, IF done THEN fcp.shown ELSE fcp.reset,
                   fcp.node, fcp.cache_enabled)

\* unlink(missing_ok): _lstat_mode, then the client's delete unless the path
\* is a directory, the cache reset once it has returned.
UnlinkCall ==
    \E missing_ok \in BOOLEAN, fault \in FcFaults :
        LET m == lstat_mode(fcp.cache_enabled, fcp.cache, fcp.node, fault)
            gone == [kind |-> "missing", target |-> "none"]
        IN  IF ~m.r.ok
            THEN FcCall("unlink",
                        IF m.r.exc = "FileNotFoundError" /\ missing_ok THEN "ok"
                        ELSE m.r.exc,
                        m.cache, m.calls, fcp.shown, fcp.reset, fcp.node,
                        fcp.cache_enabled)
            ELSE IF m.r.value = "dir"
            THEN FcCall("unlink", "IsADirectoryError", m.cache, m.calls,
                        fcp.shown, fcp.reset, fcp.node, fcp.cache_enabled)
            ELSE FcCall("unlink", "ok", CacheReset, m.calls + 1,
                        fcp.shown, fcp.shown, gone, fcp.cache_enabled)

\* rmtree(): _lstat_mode, then the client's delete if the path is a
\* directory, the cache reset once it has returned.
RmtreeFcCall ==
    \E fault \in FcFaults :
        LET m == lstat_mode(fcp.cache_enabled, fcp.cache, fcp.node, fault)
            gone == [kind |-> "missing", target |-> "none"]
        IN  IF ~m.r.ok
            THEN FcCall("rmtree", m.r.exc, m.cache, m.calls, fcp.shown, fcp.reset,
                        fcp.node, fcp.cache_enabled)
            ELSE IF m.r.value # "dir"
            THEN FcCall("rmtree", "NotADirectoryError", m.cache, m.calls,
                        fcp.shown, fcp.reset, fcp.node, fcp.cache_enabled)
            ELSE FcCall("rmtree", "ok", CacheReset, m.calls + 1,
                        fcp.shown, fcp.shown, gone, fcp.cache_enabled)

\* rename(target): the client's mv, after which the server holds nothing at
\* the path of this object; the new FcPath of the target is returned and the
\* cache of this object is left as it is.
RenameCall ==
    \E fault \in FcFaults :
        LET missing == fcp.node.kind = "missing"
            exc == IF fault # NoFailure
                   THEN ConvertHeaderExceptions(NoConvert, fault).type
                   ELSE "FileNotFoundError"
            done == fault = NoFailure /\ ~missing
            gone == [kind |-> "missing", target |-> "none"]
        IN  FcCall("rename", IF done THEN "ok" ELSE exc, fcp.cache, 1,
                   fcp.shown, fcp.reset, IF done THEN gone ELSE fcp.node,
                   fcp.cache_enabled)

\* Somebody else changes what the server holds at the path.
RemoteChanges ==
    \E node \in FcRemotes :
        /\ node # fcp.node
        /\ fcp.op # "changed"
        /\ FcCall("changed", "none", fcp.cache, 0, fcp.shown, fcp.reset, node,
                  fcp.cache_enabled)

FcpIdle == fcp = NoFcp

(***************************************************************************)
(* _ls_to_st_mode: the st_mode made from one entry of the server's ls.     *)
(***************************************************************************)
\* ftypes: the octal digits each file type character stands for.
ftypes ==
    [b |-> <<0, 0, 6, 0>>, c |-> <<0, 0, 2, 0>>, d |-> <<0, 0, 4, 0>>,
     l |-> <<0, 1, 2, 0>>, s |-> <<0, 1, 4, 0>>, p |-> <<0, 0, 1, 0>>,
     f |-> <<0, 1, 0, 0>>]

\* The type characters of ls, "-" being the key of the regular file.
FtypeKey(ftype) == IF ftype = "-" THEN "f" ELSE ftype

Ftypes == {"b", "c", "d", "l", "s", "p", "-", "?"}

\* The nine-character permission strings: at each place its letter or "-".
PermLetters == <<"r", "w", "x", "r", "w", "x", "r", "w", "x">>

Permissions ==
    {[i \in 1..9 |-> IF i \in S THEN PermLetters[i] ELSE "-"] : S \in SUBSET (1..9)}

\* str(n) for n >= 0: the decimal digits, without leading zeros.
RECURSIVE Str(_)
Str(n) == IF n < 10 THEN <<n>> ELSE Append(Str(n \div 10), n % 10)

\* int(digits, 8)
RECURSIVE IntBase8(_)
IntBase8(digits) ==
    IF digits = <<>> THEN 0
    ELSE 8 * IntBase8(SubSeq(digits, 1, Len(digits) - 1)) + digits[Len(digits)]

PermR(ch) == IF ch = "r" THEN 4 ELSE 0
PermW(ch) == IF ch = "w" THEN 2 ELSE 0
PermX(ch) == IF ch = "x" THEN 1 ELSE 0

ls_to_st_mode(ftype, permissions) ==
    IF FtypeKey(ftype) \notin DOMAIN ftypes THEN Raises("ValueError")
    ELSE LET p == permissions
             st_mode == (PermR(p[1]) + PermW(p[2]) + PermX(p[3])) * 100
                        + (PermR(p[4]) + PermW(p[5]) + PermX(p[6])) * 10
                        + (PermR(p[7]) + PermW(p[8]) + PermX(p[9])) * 1
         IN  Ok(IntBase8(ftypes[FtypeKey(ftype)] \o Str(st_mode)))

\* One conversion: the entry ls gave and what came of it.
NoMd == [op |-> "none", ftype |-> "-", permissions |-> <<>>, result |-> Raises("none")]

ModeInit ==
    \E t \in Ftypes, p \in Permissions :
        md = [NoMd EXCEPT !.ftype = t, !.permissions = p]

modeFrame == <<errVars, ioVars, fsVars, treeVars, xfer, sched, cp, gl, fcp, lg, hd>>

LsToStModeCall ==
    /\ md.op = "none"
    /\ md' = [md EXCEPT !.op = "ls_to_st_mode",
                        !.result = ls_to_st_mode(md.ftype, md.permissions)]
    /\ UNCHANGED modeFrame

MdIdle == md = NoMd

(***************************************************************************)
(* The FirecREST client logger under convert_header_exceptions: every      *)
(* wrapped call enters disable_fc_logging, which reads the logger's level, *)
(* sets it to 60 and, in its finally, sets the level it read.  The wrapped *)
(* bodies await (getfile_async, putfile_async, ...), so coroutines can be  *)
(* inside the with-block at once.                                          *)
(***************************************************************************)
StartLevels == {0, 20, 30}

NotWrapped == [inside |-> FALSE, level |-> 0]

NoLg == [level |-> 0, start |-> 0, saved |-> [p \in Procs |-> NotWrapped], left |-> "none"]

LogInit == \E l \in StartLevels : lg = [NoLg EXCEPT !.level = l, !.start = l]

logFrame == <<errVars, ioVars, fsVars, treeVars, xfer, sched, cp, gl, fcp, md, hd>>

\* level = fc_logger.level; fc_logger.setLevel(60); yield
disable_fc_logging_enter(p) ==
    /\ ~lg.saved[p].inside
    /\ lg' = [lg EXCEPT !.saved[p] = [inside |-> TRUE, level |-> lg.level], !.level = 60]
    /\ UNCHANGED logFrame

\* finally: fc_logger.setLevel(level)
disable_fc_logging_exit(p, how) ==
    /\ lg.saved[p].inside
    /\ lg' = [lg EXCEPT !.level = lg.saved[p].level, !.saved[p] = NotWrapped, !.left = how]
    /\ UNCHANGED logFrame

Wrapped == {p \in Procs : lg.saved[p].inside}

LgIdle == lg = NoLg

(***************************************************************************)
(* The submit-script header: FirecrestScheduler._get_submit_script_header. *)
(* A line is a string; the function returns the lines joined by newlines,  *)
(* kept here as the sequence of lines.  An unset (None) text field is "",  *)
(* an unset flag FALSE, an unset number 0 -- all falsy in the code's tests *)
(* -- and the two fields tested with `is not None` / `not` are <<>> when   *)
(* unset and a one-element sequence otherwise.                             *)
(***************************************************************************)
MaxDays == 2

Digit == <<"0", "1", "2", "3", "4", "5", "6", "7", "8", "9">>

\* f"{n:d}" of a non-negative integer
RECURSIVE FormatD(_)
FormatD(n) == IF n < 10 THEN Digit[n + 1] ELSE FormatD(n \div 10) \o Digit[(n % 10) + 1]

\* f"{n:02d}" of a non-negative integer
Format02d(n) == IF n < 10 THEN "0" \o FormatD(n) ELSE FormatD(n)

RECURSIVE JoinChars(_)
JoinChars(chars) == IF chars = <<>> THEN "" ELSE Head(chars) \o JoinChars(Tail(chars))

TitleChars == {"a", "j", "t", "1", "_", ".", "-"}
TitleStart == {"a", "j", "t", "1"}

\* re.sub(r"[^a-zA-Z0-9_.-]+", "", job_name), the "j" prefix, the cut at 128
JobTitle(job_name) ==
    LET kept    == SelectSeq(job_name, LAMBDA ch : ch \in TitleChars)
        started == IF kept = <<>> \/ kept[1] \notin TitleStart THEN <<"j">> \o kept ELSE kept
    IN  JoinChars(SubSeq(started, 1, IF Len(started) < 128 THEN Len(started) ELSE 128))

\* One appended line, f"{key}{value}": the literal text up to and including
\* any "=", and what is formatted after it.
Line(key, value) == [key |-> key, value |-> value]

Render(line) == line.key \o line.value

\* the --time directive of max_wallclock_seconds = tot_secs > 0
TimeLineHoursOfTotal(tot_secs) ==
    LET days        == tot_secs \div 86400
        tot_hours   == tot_secs % 86400
        hours       == tot_secs \div 3600
        tot_minutes == tot_hours % 3600
        minutes     == tot_minutes \div 60
        seconds     == tot_minutes % 60
        clock       == Format02d(hours) \o ":" \o Format02d(minutes) \o ":" \o Format02d(seconds)
    IN  IF days = 0
        THEN Line("#SBATCH --time=", clock)
        ELSE Line("#SBATCH --time=", FormatD(days) \o "-" \o clock)

TimeLine(tot_secs) ==
    LET days        == tot_secs \div 86400
        tot_hours   == tot_secs % 86400
        hours       == tot_hours \div 3600
        tot_minutes == tot_hours % 3600
        minutes     == tot_minutes \div 60
        seconds     == tot_minutes % 60
        clock       == Format02d(hours) \o ":" \o Format02d(minutes) \o ":" \o Format02d(seconds)
    IN  IF days = 0
        THEN Line("#SBATCH --time=", clock)
        ELSE Line("#SBATCH --time=", FormatD(days) \o "-" \o clock)

When(cond, lines) == IF cond THEN lines ELSE <<>>

HeaderOut(result, lines) == [result |-> result, lines |-> lines]

\* the lines appended before job_resource is looked at
HeaderOptions(t) ==
    When(t.submit_as_hold, <<Line("#SBATCH -H", "")>>)
    \o (IF t.rerunnable THEN <<Line("#SBATCH --requeue", "")>>
        ELSE <<Line("#SBATCH --no-requeue", "")>>)
    \o When(t.email # "", <<Line("#SBATCH --mail-user=", t.email)>>)
    \o When(t.email_on_started, <<Line("#SBATCH --mail-type=", "BEGIN")>>)
    \o When(t.email_on_terminated,
            <<Line("#SBATCH --mail-type=", "FAIL"), Line("#SBATCH --mail-type=", "END")>>)
    \o When(t.job_name # <<>>,
            <<Line("#SBATCH --job-name=", "\"" \o JobTitle(t.job_name) \o "\"")>>)
    \o When(t.import_sys_environment, <<Line("#SBATCH --get-user-env", "")>>)
    \o When(t.sched_output_path # "", <<Line("#SBATCH --output=", t.sched_output_path)>>)
    \o (IF t.sched_join_files THEN <<>>
        ELSE IF t.sched_error_path # "" THEN <<Line("#SBATCH --error=", t.sched_error_path)>>
        ELSE <<Line("#SBATCH --error=", "slurm-%j.err")>>)
    \o When(t.queue_name # "", <<Line("#SBATCH --partition=", t.queue_name)>>)
    \o When(t.account # "", <<Line("#SBATCH --account=", t.account)>>)
    \o When(t.qos # "", <<Line("#SBATCH --qos=", t.qos)>>)
    \o When(t.priority # 0, <<Line("#SBATCH --nice=", FormatD(t.priority))>>)

\* the lines of the job resource
HeaderResourcesAlwaysCpus(r) ==
    <<Line("#SBATCH --nodes=", FormatD(r.num_machines))>>
    \o When(r.num_mpiprocs_per_machine # 0,
            <<Line("#SBATCH --ntasks-per-node=", FormatD(r.num_mpiprocs_per_machine))>>)
    \o <<Line("#SBATCH --cpus-per-task=", FormatD(r.num_cores_per_mpiproc))>>

HeaderResources(r) ==
    <<Line("#SBATCH --nodes=", FormatD(r.num_machines))>>
    \o When(r.num_mpiprocs_per_machine # 0,
            <<Line("#SBATCH --ntasks-per-node=", FormatD(r.num_mpiprocs_per_machine))>>)
    \o When(r.num_cores_per_mpiproc # 0,
            <<Line("#SBATCH --cpus-per-task=", FormatD(r.num_cores_per_mpiproc))>>)

\* the lines after the wall-clock limit
HeaderTail(t) ==
    When(t.max_memory_kb # 0, <<Line("#SBATCH --mem=", FormatD(t.max_memory_kb \div 1024))>>)
    \o When(t.custom_scheduler_commands # "", <<Line("", t.custom_scheduler_commands)>>)

get_submit_script_header(t) ==
    IF t.job_resource = <<>> THEN HeaderOut("ValueError", <<>>)
    ELSE IF t.max_wallclock_seconds # <<>> /\ t.max_wallclock_seconds[1] <= 0
    THEN HeaderOut("ValueError", <<>>)
    ELSE HeaderOut("ok",
             HeaderOptions(t) \o HeaderResources(t.job_resource[1])
             \o When(t.max_wallclock_seconds # <<>>, <<TimeLine(t.max_wallclock_seconds[1])>>)
             \o HeaderTail(t))

\* ---- the job templates handed in
Optionals ==
    {"submit_as_hold", "rerunnable", "email", "email_on_started", "email_on_terminated",
     "job_name", "import_sys_environment", "sched_output_path", "sched_join_files",
     "sched_error_path", "queue_name", "account", "qos", "priority", "max_memory_kb",
     "custom_scheduler_commands"}

JobResource(m, p, c) ==
    [num_machines |-> m, num_mpiprocs_per_machine |-> p, num_cores_per_mpiproc |-> c]

JobResources ==
    {<<>>, <<JobResource(1, 1, 0)>>, <<JobResource(2, 1, 0)>>, <<JobResource(1, 0, 0)>>,
     <<JobResource(1, 2, 2)>>}

\* the sets of optional fields a template sets: none, one, two, all but one, all
OptionSets ==
    LET one == {{o} : o \in Optionals}
    IN  {{}} \cup one \cup {a \cup b : a \in one, b \in one}
             \cup {Optionals \ a : a \in one} \cup {Optionals}

\* wall-clock limits around every carry of the days/hours/minutes/seconds split
WallSeconds ==
    {d * 86400 + h * 3600 + m * 60 + s : d \in 0..MaxDays, h \in {0, 1, 23}, m \in {0, 1, 59}, s \in {0, 1, 59}}

WallClocks == {<<>>} \cup {<<t>> : t \in WallSeconds}

JobTemplate(set, resource, wallclock) ==
    [submit_as_hold            |-> "submit_as_hold" \in set,
     rerunnable                |-> "rerunnable" \in set,
     email                     |-> IF "email" \in set THEN "True" ELSE "",
     email_on_started          |-> "email_on_started" \in set,
     email_on_terminated       |-> "email_on_terminated" \in set,
     job_name                  |-> IF "job_name" \in set THEN <<"_", "t", " ", "1">> ELSE <<>>,
     import_sys_environment    |-> "import_sys_environment" \in set,
     sched_output_path         |-> IF "sched_output_path" \in set THEN "test.out" ELSE "",
     sched_join_files          |-> "sched_join_files" \in set,
     sched_error_path          |-> IF "sched_error_path" \in set THEN "test.err" ELSE "",
     queue_name                |-> IF "queue_name" \in set THEN "test_queue" ELSE "",
     account                   |-> IF "account" \in set THEN "test_account" ELSE "",
     qos                       |-> IF "qos" \in set THEN "test_qos" ELSE "",
     priority                  |-> IF "priority" \in set THEN 100 ELSE 0,
     max_memory_kb             |-> IF "max_memory_kb" \in set THEN 1024 ELSE 0,
     custom_scheduler_commands |-> IF "custom_scheduler_commands" \in set THEN "test_command" ELSE "",
     job_resource              |-> resource,
     max_wallclock_seconds     |-> wallclock]

NoHd == [op |-> "none", set |-> {}, tmpl |-> JobTemplate({}, <<>>, <<>>), result |-> "none", lines |-> <<>>]

HeaderInit == hd = NoHd

headerFrame == <<errVars, ioVars, fsVars, treeVars, xfer, sched, cp, gl, fcp, md, lg>>

GetSubmitScriptHeader ==
    /\ hd.op = "none"
    /\ \E set \in OptionSets, resource \in JobResources, wallclock \in WallClocks :
           LET t   == JobTemplate(set, resource, wallclock)
               out == get_submit_script_header(t)
           IN  hd' = [op |-> "header", set |-> set, tmpl |-> t, result |-> out.result, lines |-> out.lines]
    /\ UNCHANGED headerFrame

HdIdle == hd = NoHd

SchedIdle == sched = NoSched

OtherIdle == LgIdle /\ HdIdle

MoreIdle == XferIdle /\ SchedIdle /\ CpIdle /\ GlIdle /\ FcpIdle /\ MdIdle /\ OtherIdle

(***************************************************************************)
(* The specifications.                                                     *)
(***************************************************************************)
ErrNext == WrappedCallReturns \/ WrappedCallRaises

InitErr == ErrInit /\ IOIdle /\ FSIdle /\ TreeIdle /\ MoreIdle

SpecErr == InitErr /\ [][ErrNext]_vars

IONext ==
    \E p \in Procs :
        \/ Call(p)
        \/ ProbeRejects(p)
        \/ LockAdmits(p)
        \/ LockSleeps(p)
        \/ TransferReturns(p)
        \/ TransferRaises(p)

InitIO == IOInit /\ ErrIdle /\ FSIdle /\ TreeIdle /\ MoreIdle

SpecIO == InitIO /\ [][IONext]_vars

\* The event loop resumes every coroutine that can go on: an admitted
\* download / upload eventually returns or raises, and a coroutine in _lock
\* that finds room again and again (it wakes every sleep_time) is eventually
\* admitted.  Each conjunct implies its weakly fair counterpart.
IOFairness ==
    /\ \A p \in Procs : WF_vars(TransferReturns(p) \/ TransferRaises(p))
    /\ \A p \in Procs : SF_vars(LockAdmits(p))

SpecIOFair == InitIO /\ [][IONext]_vars /\ IOFairness

FSNext ==
    \/ MkdirCall
    \/ MakedirsCall
    \/ RemoveCall
    \/ RmdirCall
    \/ RmtreeCall

InitFS == FSInit /\ ErrIdle /\ IOIdle /\ TreeIdle /\ MoreIdle

SpecFS == InitFS /\ [][FSNext]_vars

ProbeNext ==
    \/ PathExistsCall
    \/ IsdirCall
    \/ IsfileCall
    \/ IsSymlinkCall

SpecProbe == InitFS /\ [][ProbeNext]_vars

TreeNext == SetPayoffOverride \/ PutTreeCall \/ GetTreeCall

InitTree == TreeInit /\ ErrIdle /\ IOIdle /\ last = NoCall /\ MoreIdle

SpecTree == InitTree /\ [][TreeNext]_vars

SchedNext == KillJob \/ GetJobsCall \/ GetJobsFails

InitSched ==
    SchedInit /\ ErrIdle /\ IOIdle /\ FSIdle /\ TreeIdle
        /\ XferIdle /\ CpIdle /\ GlIdle /\ FcpIdle /\ MdIdle /\ OtherIdle

SpecSched == InitSched /\ [][SchedNext]_vars

XferNext == SetChecksumCheck \/ GetfileCall \/ PutfileCall

InitXfer ==
    XferInit /\ ErrIdle /\ IOIdle /\ FSIdle
        /\ SchedIdle /\ CpIdle /\ GlIdle /\ FcpIdle /\ MdIdle /\ OtherIdle

SpecXfer == InitXfer /\ [][XferNext]_vars

\* The whole transport: any of its parts takes a step.
CopyNext == CopyfileCall \/ CopytreeCall \/ CopyCall \/ CopyNotRecursive

InitCopy == CopyInit /\ ErrIdle /\ IOIdle /\ FSIdle /\ TreeIdle /\ XferIdle /\ SchedIdle /\ GlIdle /\ FcpIdle /\ MdIdle /\ OtherIdle

SpecCopy == InitCopy /\ [][CopyNext]_vars

GlobNext == PutCall \/ GetCall

InitGlob == GlobInit /\ ErrIdle /\ IOIdle /\ FSIdle /\ TreeIdle /\ XferIdle /\ SchedIdle /\ CpIdle /\ FcpIdle /\ MdIdle /\ OtherIdle

SpecGlob == InitGlob /\ [][GlobNext]_vars

FcPathNext ==
    ProbeCall \/ SetCacheEnabled \/ ClearCache \/ ChmodCall \/ UnlinkCall
    \/ RmtreeFcCall \/ RenameCall \/ RemoteChanges

InitFcPath == FcPathInit /\ ErrIdle /\ IOIdle /\ FSIdle /\ TreeIdle /\ XferIdle /\ SchedIdle /\ CpIdle /\ GlIdle /\ MdIdle /\ OtherIdle

SpecFcPath == InitFcPath /\ [][FcPathNext]_vars

ModeNext == LsToStModeCall

InitMode == ModeInit /\ ErrIdle /\ IOIdle /\ FSIdle /\ TreeIdle /\ XferIdle /\ SchedIdle /\ CpIdle /\ GlIdle /\ FcpIdle /\ OtherIdle

SpecMode == InitMode /\ [][ModeNext]_vars

LogNext ==
    \E p \in Procs :
        \/ disable_fc_logging_enter(p)
        \/ disable_fc_logging_exit(p, "returned")
        \/ disable_fc_logging_exit(p, "raised")

InitLog ==
    LogInit /\ ErrIdle /\ IOIdle /\ FSIdle /\ TreeIdle /\ XferIdle /\ SchedIdle
        /\ CpIdle /\ GlIdle /\ FcpIdle /\ MdIdle /\ HdIdle

SpecLog == InitLog /\ [][LogNext]_vars

HeaderNext == GetSubmitScriptHeader

InitHeader ==
    HeaderInit /\ ErrIdle /\ IOIdle /\ FSIdle /\ TreeIdle /\ XferIdle /\ SchedIdle
        /\ CpIdle /\ GlIdle /\ FcpIdle /\ MdIdle /\ LgIdle

SpecHeader == InitHeader /\ [][HeaderNext]_vars

Init ==
    InitErr \/ InitIO \/ InitFS \/ InitTree \/ InitXfer \/ InitSched \/ InitCopy
    \/ InitGlob \/ InitFcPath \/ InitMode \/ InitLog \/ InitHeader

Next ==
    ErrNext \/ IONext \/ FSNext \/ ProbeNext \/ TreeNext \/ XferNext \/ SchedNext
    \/ CopyNext \/ GlobNext \/ FcPathNext \/ ModeNext \/ LogNext \/ HeaderNext

Spec == Init /\ [][Next]_vars

(***************************************************************************)
(* Properties.                                                             *)
(***************************************************************************)

\* C1: the number of client upload/download calls in flight never exceeds
\* max_io_allowed: a coroutine that finds the counter at the limit waits.
C1_InFlightWithinLimit == Cardinality(InFlight) <= max_io_allowed

\* The limit is reached and a further transfer is asleep in _lock.
C1_LimitReachedOneWaiting ==
    /\ Cardinality(InFlight) = max_io_allowed
    /\ \E p \in Procs : pc[p].at = "sleep"

\* The root a fault-free tree call that returned has filled: the
\* destination when it did not exist before the call, the directory named
\* after the source inside it when it did.
ExpectedRoot(t) ==
    LET before == IF t.op = "puttree" THEN t.pre_remote ELSE t.pre_local
    IN  IF t.dest \in DOMAIN before
        THEN JoinPath(t.dest, <<Name(t.src)>>) ELSE t.dest

\* Every file of the source tree lies under root on the receiving side, and
\* nothing new was left anywhere else.
PlacedUnder(t, from, before, after, root) ==
    /\ \A q \in FilesUnder(from, t.src) :
          /\ JoinPath(root, RelTo(t.src, q)) \in DOMAIN after
          /\ after[JoinPath(root, RelTo(t.src, q))].kind = "file"
    /\ \A q \in DOMAIN after \ DOMAIN before : IsPrefix(root, q)

TreeLanded(t, lfs, rfs) ==
    IF t.op = "puttree"
    THEN PlacedUnder(t, t.pre_local, t.pre_remote, rfs, ExpectedRoot(t))
    ELSE PlacedUnder(t, t.pre_remote, t.pre_local, lfs, ExpectedRoot(t))

\* C2: a puttree/gettree that returns with no step failing has put the
\* source's contents directly under the destination when the destination
\* did not exist, and under destination/<basename of source> when it did;
\* hence a puttree that filled a missing destination, followed by the same
\* puttree, fills destination/<basename>.
C2_TreeRootNaming ==
    [][/\ (tree'.op \in {"puttree", "gettree"} /\ tree'.result = "ok"
                /\ tree'.failed_at = "none")
            => TreeLanded(tree', local', remote')
       /\ (/\ tree.op = "puttree" /\ tree.result = "ok" /\ tree.failed_at = "none"
           /\ tree.dest \notin DOMAIN tree.pre_remote
           /\ tree'.op = "puttree" /\ tree'.n = tree.n + 1 /\ tree'.fault = "none")
            => /\ tree'.result = "ok"
               /\ PlacedUnder(tree', tree'.pre_local, tree'.pre_remote, remote',
                              JoinPath(tree.dest, <<Name(tree.src)>>))]_vars

\* The second of two puttree calls has filled up/src beside the files the
\* first one put directly under up.
C2_SecondUploadNested ==
    /\ tree.op = "puttree" /\ tree.result = "ok" /\ tree.n = 2
    /\ JoinPath(RemoteDest, <<"e1">>) \in DOMAIN tree.pre_remote
    /\ JoinPath(RemoteDest, <<"src", "e1">>) \in DOMAIN remote
    /\ JoinPath(RemoteDest, <<"src", "e1">>) \notin DOMAIN tree.pre_remote

NonEmptyDir(fs, p) ==
    /\ Stat(fs, p, TRUE) = "dir"
    /\ Children(fs, Resolve(fs, p)) # {}

\* C3: rmdir on a directory that holds at least one entry raises an OSError,
\* calls rm on nothing and leaves the remote tree as it was; rmtree on such
\* a directory returns and the path is gone.
C3_RmdirRefusesRmtreeRemoves ==
    /\ (last.op = "rmdir" /\ NonEmptyDir(last.pre, last.path))
        => /\ IsOSError(last.result)
           /\ last.rm = {}
           /\ remote = last.pre
    /\ (last.op = "rmtree" /\ NonEmptyDir(last.pre, last.path))
        => /\ last.result = "ok"
           /\ last.path \notin DOMAIN remote

\* rmdir refused a non-empty directory and rmtree then removed it.
C3_RefusedThenRemoved ==
    /\ last.op = "rmtree" /\ NonEmptyDir(last.pre, last.path)
    /\ last.prev.op = "rmdir" /\ last.prev.path = last.path
    /\ IsOSError(last.prev.result)
    /\ last.prev.pre = last.pre
    /\ last.path \notin DOMAIN remote

\* C4 as the specification words it: remove calls rm only on a regular
\* file, and on a directory raises the is-a-directory kind and deletes
\* nothing.
C4_RemoveRaisesIsADirectory ==
    last.op = "remove"
        => /\ last.rm # {} => Stat(last.pre, last.path, TRUE) = "file"
           /\ Stat(last.pre, last.path, TRUE) = "dir"
                => /\ last.result = "IsADirectoryError"
                   /\ last.rm = {}
                   /\ remote = last.pre

\* C4: remove calls the client's rm exactly when the path (symlinks
\* followed) is a regular file; on a directory it raises a plain OSError
\* ("Path is not a file"), calls rm on nothing and leaves the tree as it
\* was.
C4_RemoveRefusesDirectory ==
    last.op = "remove"
        => /\ last.rm # {} <=> Stat(last.pre, last.path, TRUE) = "file"
           /\ Stat(last.pre, last.path, TRUE) = "dir"
                => /\ last.result = "OSError"
                   /\ last.rm = {}
                   /\ remote = last.pre

\* remove was called on a directory that holds something.
C4_RemoveOnDirectory ==
    /\ last.op = "remove"
    /\ NonEmptyDir(last.pre, last.path)
    /\ last.result = "OSError"
    /\ remote = last.pre

\* mkdir -p of p can succeed: p is absent or a directory and nothing above
\* it is anything but a directory.
Creatable(fs, p) ==
    /\ p \notin DOMAIN fs \/ Stat(fs, p, TRUE) = "dir"
    /\ \A a \in Ancestors(p) : Stat(fs, a, TRUE) \in {"dir", "missing"}

SameCallTwice(op) ==
    /\ last.op = op /\ last.prev.op = op
    /\ last.prev.path = last.path
    /\ last.prev.flag = last.flag

\* C5: mkdir(ignore_existing=True) called twice on a path that can be made
\* raises neither time; of two mkdir(ignore_existing=False) calls on one
\* path the second raises an OSError (OSError itself when the first made
\* the directory); makedirs on a path that exists raises OSError unless
\* ignore_existing=True, and then returns leaving the tree as it was.
C5_MkdirExistingPolicy ==
    /\ (SameCallTwice("mkdir") /\ last.flag /\ Creatable(last.prev.pre, last.path))
        => /\ last.prev.result = "ok"
           /\ last.result = "ok"
           /\ remote = last.pre
    /\ (SameCallTwice("mkdir") /\ ~last.flag)
        => /\ IsOSError(last.result)
           /\ last.prev.result = "ok" => last.result = "OSError"
           /\ remote = last.pre
    /\ (last.op = "makedirs" /\ Stat(last.pre, last.path, TRUE) # "missing")
        => /\ last.result = (IF last.flag THEN "ok" ELSE "OSError")
           /\ remote = last.pre

\* mkdir(ignore_existing=False) made a directory and the same call then
\* raised OSError.
C5_SecondMkdirRaised ==
    /\ SameCallTwice("mkdir") /\ ~last.flag
    /\ last.path \notin DOMAIN last.prev.pre
    /\ last.prev.result = "ok"
    /\ last.result = "OSError"

\* The places of the failure's headers that hold a recognised signal.
RecognisedAt == {i \in 1..Len(failure.headers) : Recognised(convert, failure.headers[i])}

\* The places of the translation table whose signal the response carries.
TablePlaces ==
    {i \in 1..Len(CommonHeaderOrder) :
        \E j \in 1..Len(failure.headers) : failure.headers[j] = CommonHeaderOrder[i]}

C7_FallbackForEveryFailure ==
    (failure # NoFailure /\ RecognisedAt = {})
        => /\ raised.type \notin {"none", "returned"}
           /\ failure.msg = {"File exists"} => raised = Raise("FileExistsError")
           /\ failure.msg = {"cannot statx"} => raised = Raise("FileNotFoundError")
           /\ failure.msg = {"Job not found"} => raised = Raise("JobNotFoundError")
           /\ failure.msg = {} => raised = Reraise(failure)

\* C7: a failure with no recognised signal always leaves the block as an
\* exception.  A header exception is re-raised as it is whatever its
\* message; any other exception is raised as FileExistsError when its
\* message holds 'File exists', else as FileNotFoundError when it holds
\* 'cannot statx', else as JobNotFoundError when it holds 'Job not found',
\* and is re-raised as it is otherwise.
C7_FallbackForGenericOnly ==
    (failure # NoFailure /\ RecognisedAt = {})
        => /\ raised.type \notin {"none", "returned"}
           /\ failure.cls = "HeaderException" => raised = Reraise(failure)
           /\ failure.cls = "Exception" =>
                /\ "File exists" \in failure.msg => raised = Raise("FileExistsError")
                /\ ("File exists" \notin failure.msg /\ "cannot statx" \in failure.msg)
                      => raised = Raise("FileNotFoundError")
                /\ failure.msg = {"Job not found"} => raised = Raise("JobNotFoundError")
                /\ failure.msg = {} => raised = Reraise(failure)

\* A header exception with no signal among its headers said 'File exists'
\* and was re-raised as it was.
C7_HeaderExceptionKept ==
    /\ failure.cls = "HeaderException"
    /\ failure.headers = <<"X-Error">>
    /\ failure.msg = {"File exists"}
    /\ raised = Reraise(failure)

Probes == {"path_exists", "isdir", "isfile", "is_symlink"}

\* The stat was answered with "no such path": the not-found or invalid-path
\* signal, or a message of a plain exception that says 'cannot statx'.
ReportsNotFound(f) ==
    \/ /\ f.cls = "HeaderException"
       /\ f.headers \in {<<"X-Not-Found">>, <<"X-Invalid-Path">>}
    \/ /\ f.cls = "Exception"
       /\ "cannot statx" \in f.msg
       /\ "File exists" \notin f.msg

\* What the probe says of the path when the stat answers.
ProbeTruth(op, fs, p) ==
    CASE op = "path_exists" -> TRUE
      [] op = "isdir"       -> Stat(fs, p, TRUE) = "dir"
      [] op = "isfile"      -> Stat(fs, p, TRUE) = "file"
      [] op = "is_symlink"  -> Stat(fs, p, FALSE) = "link"

\* C8: path_exists, isdir, isfile and is_symlink return False when the stat
\* reports that the path is not there, and let every other failure of the
\* stat out as the exception it translates to; none of them changes the
\* remote tree.
C8_ProbesFalseOnlyOnNotFound ==
    last.op \in Probes
        => /\ remote = last.pre
           /\ last.fault = NoFailure
                => last.result = Bool(ProbeTruth(last.op, last.pre, last.path))
           /\ (last.fault # NoFailure /\ ReportsNotFound(last.fault))
                => last.result = "False"
           /\ (last.fault # NoFailure /\ ~ReportsNotFound(last.fault))
                => /\ last.result \notin {"True", "False"}
                   /\ last.result = ConvertHeaderExceptions(NoConvert, last.fault).type

\* path_exists on a path that is there met permission-denied and raised
\* PermissionError.
C8_PermissionDeniedPropagated ==
    /\ last.op = "path_exists"
    /\ last.path \in DOMAIN last.pre
    /\ last.fault = Hdr(<<"X-Permission-Denied">>)
    /\ last.result = "PermissionError"

\* The entries payoff is said to count: the directory's own entries for an
\* upload, the recursive listing for a download.
SourceEntries(t) ==
    IF t.op = "puttree" THEN Cardinality(Children(t.pre_local, t.src))
    ELSE Cardinality(Descendants(t.pre_remote, t.src))

\* C9: with no override a tree of exactly 3 entries goes file by file and
\* one of 4 entries as an archive; with an override set the override
\* decides, whatever the number of entries.
C9_StrategyByEntryCount ==
    tree.strategy \in {"tar", "files"}
        => IF tree.override # "None"
           THEN tree.strategy = (IF tree.override = "True" THEN "tar" ELSE "files")
           ELSE /\ SourceEntries(tree) = PayoffThreshold => tree.strategy = "files"
                /\ SourceEntries(tree) = PayoffThreshold + 1 => tree.strategy = "tar"

\* C10: once an archive-mode puttree/gettree has returned or raised, neither
\* the local nor the remote temp_<uuid>.gzip of the call exists.
C10_NoArchiveLeftBehind ==
    tree.strategy = "tar"
        => /\ tree.ltemp \notin DOMAIN local
           /\ tree.rtemp \notin DOMAIN remote

Count(calls, c) == Cardinality({i \in 1..Len(calls) : calls[i] = c})

\* The transfer of the call returned: the client's download / upload was
\* called and raised nothing.
Transferred(x) ==
    /\ x.op \in {"getfile", "putfile"}
    /\ Count(x.calls, "download") + Count(x.calls, "upload") = 1
    /\ x.args.fault = NoFailure

\* C11: a putfile/getfile made with checksum_check off calls the client's
\* checksum never; one made with it on calls it at most once, and exactly
\* once, as the last remote call after the transfer, when the transfer
\* returned and the remote path is still seen as a file; when that checksum
\* call answers and the local SHA-256 digest differs from the remote
\* checksum the call raises ValueError, and when the digests agree under
\* sha256 it returns.
C11_ChecksumCalls ==
    xfer.op \in {"getfile", "putfile"}
        => /\ ~xfer.check => Count(xfer.calls, "checksum") = 0
           /\ Count(xfer.calls, "checksum") <= 1
           /\ ~Transferred(xfer) => Count(xfer.calls, "checksum") = 0
           /\ (xfer.check /\ Transferred(xfer) /\ xfer.met.isfile = "True")
                => /\ Count(xfer.calls, "checksum") = 1
                   /\ xfer.calls[Len(xfer.calls)] = "checksum"
                   /\ (~xfer.met.fails /\ xfer.met.lcontent # xfer.met.rcontent)
                        => xfer.result = "ValueError"
                   /\ (/\ ~xfer.met.fails
                       /\ xfer.met.lcontent = xfer.met.rcontent
                       /\ xfer.met.algo \in {"sha256", "SHA256"})
                        => xfer.result = "ok"

\* getfile with checksum_check on downloaded the file, found the local copy
\* different from the remote file and raised the mismatch.
C11_CorruptedCopyCaught ==
    /\ xfer.op = "getfile" /\ xfer.check
    /\ xfer.calls = <<"stat", "download", "stat", "checksum">>
    /\ xfer.met.lcontent = "garbage" /\ xfer.met.rcontent = "file1"
    /\ xfer.met.algo = "sha256"
    /\ xfer.result = "ValueError" /\ xfer.why = "mismatch"

\* The poll was answered for every job asked for: no client failure, and
\* every id still active.
PollAnswered ==
    /\ sched.op = "get_jobs"
    /\ sched.fault = NoPollFault
    /\ \A i \in 1..Len(sched.jobs) : sched.jobs[i] \in sched.active

\* The records of the poll that pass the user filter.
Passing ==
    {i \in 1..Len(sched.jobs) :
        sched.user = "None" \/ Records(sched.jobs, sched.odd)[i].user = sched.user}

\* C12: a poll whose records carry any raw state string raises nothing:
\* every record that passes the user filter is returned once, and with state
\* UNDETERMINED when its raw state is no key of _MAP_STATUS_SLURM.
C12_UnknownStateUndetermined ==
    PollAnswered
        => /\ sched.result = "ok"
           /\ Len(sched.job_list) = Cardinality(Passing)
           /\ \A i \in Passing :
                \E k \in 1..Len(sched.job_list) :
                    /\ sched.job_list[k].job_id = sched.jobs[i]
                    /\ \A m \in 1..Len(sched.job_list) :
                          sched.job_list[m].job_id = sched.jobs[i] => m = k
                    /\ Records(sched.jobs, sched.odd)[i].state \notin DOMAIN MAP_STATUS_SLURM
                          => sched.job_list[k].job_state = "UNDETERMINED"

\* One record of three carried a state that is no key of the table; all
\* three came back, that one UNDETERMINED.
C12_MalformedRecordKept ==
    /\ PollAnswered /\ sched.user = "None"
    /\ Len(sched.jobs) = 3 /\ sched.odd.at = 2 /\ sched.odd.state = "BOGUS"
    /\ Len(sched.job_list) = 3
    /\ sched.job_list[2].job_state = "UNDETERMINED"
    /\ sched.job_list[3].job_state = "DONE"

\* C13: a returned job is QUEUED_HELD exactly when its raw state maps to
\* QUEUED and the reason it waits for is a held reason; a held queued job
\* is not returned as QUEUED.
C13_HeldJobsReported ==
    sched.op = "get_jobs"
        => \A k \in 1..Len(sched.job_list) :
              LET job == sched.job_list[k]
                  held == /\ job.raw_data.state \in DOMAIN MAP_STATUS_SLURM
                          /\ MAP_STATUS_SLURM[job.raw_data.state] = "QUEUED"
                          /\ job.raw_data.reason \in HeldReasons
              IN  /\ job.job_state = "QUEUED_HELD" <=> held
                  /\ held => job.job_state # "QUEUED"

\* C14: a poll of N active jobs with page size P >= 1 returns the N jobs
\* asked for, each once and in order, and has requested the pages
\* 0, 1, ..., N div P: every page before the last was full and the last was
\* shorter than P.
C14_PaginationComplete ==
    (PollAnswered /\ sched.user = "None")
        => /\ sched.result = "ok"
           /\ Len(sched.job_list) = Len(sched.jobs)
           /\ \A i \in 1..Len(sched.jobs) : sched.job_list[i].job_id = sched.jobs[i]
           /\ sched.pages = [i \in 1..((Len(sched.jobs) \div sched.page_size) + 1) |-> i - 1]

\* Four jobs polled two a page: pages 0, 1 and the empty page 2.
C14_FullLastPageThenEmpty ==
    /\ PollAnswered /\ sched.user = "None"
    /\ Len(sched.jobs) = 4 /\ sched.page_size = 2
    /\ sched.pages = <<0, 1, 2>>
    /\ Len(sched.job_list) = 4

\* The client raised the fault of the call: the loop got to its page.
FaultMet ==
    /\ sched.op = "get_jobs"
    /\ sched.fault # NoPollFault
    /\ Len(sched.pages) = sched.fault.page + 1

\* C15: get_jobs raises nothing when the server rejects the ids with
\* 'Invalid job id', and returns nothing once every id of the list has been
\* killed; any other FirecrestException of a poll is raised as
\* SchedulerError.
C15_PollFailures ==
    /\ (/\ sched.op = "get_jobs" /\ sched.fault = NoPollFault
        /\ \E i \in 1..Len(sched.jobs) : sched.jobs[i] \notin sched.active)
        => sched.result = "ok"
    /\ (/\ sched.op = "get_jobs" /\ sched.fault = NoPollFault /\ sched.jobs # <<>>
        /\ \A i \in 1..Len(sched.jobs) : sched.jobs[i] \notin sched.active)
        => sched.result = "ok" /\ sched.job_list = <<>>
    /\ (/\ FaultMet /\ sched.fault.cls = "FirecrestException"
        /\ "Invalid job id" \in sched.fault.msg)
        => sched.result = "ok"
    /\ (/\ FaultMet /\ sched.fault.cls = "FirecrestException"
        /\ "Invalid job id" \notin sched.fault.msg)
        => sched.result = "SchedulerError"

(***************************************************************************)
(* The copy family.                                                        *)
(***************************************************************************)
CopyFamily == {"copyfile", "copytree", "copy"}

\* The call raised `exc` before any cp was issued, the remote tree untouched.
RaisedBeforeCp(exc) ==
    cp.result = exc /\ cp.calls = <<>> /\ cp.post = cp.pre

\* C16: copyfile raises ValueError for a source that is a directory,
\* copytree raises ValueError for a source that is a regular file, and
\* copy, copyfile and copytree raise FileNotFoundError for a source path that
\* does not exist; none of these calls issues a remote cp.
C16_SourceChecksBeforeCp ==
    /\ (cp.op = "copyfile" /\ Stat(cp.pre, cp.source, TRUE) = "dir")
        => RaisedBeforeCp("ValueError")
    /\ (cp.op = "copytree" /\ Stat(cp.pre, cp.source, TRUE) = "file")
        => RaisedBeforeCp("ValueError")
    /\ (/\ cp.op \in CopyFamily /\ ~has_magic(cp.source)
        /\ Stat(cp.pre, cp.source, TRUE) = "missing")
        => RaisedBeforeCp("FileNotFoundError")

\* copyfile refused a directory it was given after an earlier copy had
\* been made.
C16_CopyfileRefusedDirectory ==
    /\ cp.op = "copyfile"
    /\ Stat(cp.pre, cp.source, TRUE) = "dir"
    /\ cp.pre \notin CpTrees
    /\ RaisedBeforeCp("ValueError")

\* The links the call left on the remote side where none was before.
NewLinks ==
    {q \in DOMAIN cp.post :
        /\ cp.post[q].kind = "link"
        /\ (q \notin DOMAIN cp.pre \/ cp.pre[q].kind # "link")}

\* Where the cp of the call put the copy of its source.
CpRoot ==
    IF Stat(cp.pre, cp.destination, TRUE) = "dir"
    THEN Append(Resolve(cp.pre, cp.destination), Name(cp.source))
    ELSE cp.destination

Matching(fs, pattern) == Children(fs, Parent(pattern))

TransferSources == {gl.transfers[i].source : i \in 1..Len(gl.transfers)}

\* C18: a put or get whose source holds a wildcard and that returns has
\* handed on one transfer for each path the pattern matches on the side the
\* source lives on (the local disk for put, the server for get), and none
\* for any other path.
C18_PatternExpandedOnSourceSide ==
    /\ (gl.op = "put" /\ has_magic(gl.source) /\ gl.result = "ok")
        => /\ TransferSources = Matching(gl.lpre, gl.source)
           /\ Len(gl.transfers) = Cardinality(TransferSources)
    /\ (gl.op = "get" /\ has_magic(gl.source) /\ gl.result = "ok")
        => /\ TransferSources = Matching(gl.rpre, gl.source)
           /\ Len(gl.transfers) = Cardinality(TransferSources)

(***************************************************************************)
(* FcPath and its cache.                                                   *)
(***************************************************************************)
\* The last call was a probe of an object that did not cache / that cached.
ProbedUncached == fcp.op \in FcProbes /\ ~fcp.enabled_at_call
ProbedCached   == fcp.op \in FcProbes /\ fcp.enabled_at_call

\* C19 as the specification states it: a probe of an object that does not
\* cache makes exactly one remote call, and a probe of an object that
\* caches makes none once an earlier is_symlink has shown the path to be no
\* symlink.
C19_NoCallOnceShown ==
    /\ ProbedUncached => fcp.calls = 1
    /\ (ProbedCached /\ fcp.shown_before) => fcp.calls = 0

\* C19: a probe of an object that does not cache makes exactly one remote
\* call; a probe of an object that caches makes none once an earlier
\* is_symlink has shown the path to be no symlink, as long as the cache
\* has not been reset since (by clear_cache, chmod or unlink).
C19_NoCallWhileCacheKept ==
    /\ ProbedUncached => fcp.calls = 1
    /\ (ProbedCached /\ fcp.shown_before /\ ~fcp.reset_before) => fcp.calls = 0

\* is_dir answered from the cache that an earlier is_symlink had filled.
C19_IsDirFromLstatCache ==
    /\ fcp.op = "is_dir" /\ fcp.enabled_at_call
    /\ fcp.shown_before /\ ~fcp.reset_before
    /\ fcp.calls = 0 /\ fcp.result = "True"

(***************************************************************************)
(* The mode bits made from a listing.                                      *)
(***************************************************************************)
\* stat.S_IFMT(mode), as the octal number of the type: 0o100000 regular
\* file, 0o040000 directory, 0o120000 symbolic link.
S_IFMT(mode) == (mode \div 4096) * 4096

TypeBits(ftype) ==
    CASE ftype = "-" -> 32768 [] ftype = "d" -> 16384 [] ftype = "l" -> 40960

\* The rwx string of the nine permission bits of mode (mode & 0o777).
PermString(mode) ==
    [i \in 1..9 |->
        IF ((mode % 512) \div (2 ^ (9 - i))) % 2 = 1 THEN PermLetters[i] ELSE "-"]

\* C20: for a type character among '-', 'd', 'l' and any of the 512
\* permission strings, the mode _ls_to_st_mode returns has the type bits of
\* that type and the permission bits of that string.
C20_ModeRoundTrip ==
    (md.op = "ls_to_st_mode" /\ md.ftype \in {"-", "d", "l"})
        => /\ md.result.ok
           /\ S_IFMT(md.result.value) = TypeBits(md.ftype)
           /\ PermString(md.result.value) = md.permissions

(***************************************************************************)
(* The client logger.                                                      *)
(***************************************************************************)
\* C21: whenever at least one remote call is inside
\* convert_header_exceptions -- several coroutines at once included -- the
\* level of the FirecREST client logger is 60.
C21_SuppressedWhileWrapped == Wrapped # {} => lg.level = 60

\* C26: whenever no call is inside convert_header_exceptions, the logger's
\* level is the one it had before the first wrapped call, whatever the
\* interleaving and whether the calls returned or raised.
C26_LevelRestored == Wrapped = {} => lg.level = lg.start

(***************************************************************************)
(* The submit-script header.                                               *)
(***************************************************************************)
Rendered == [i \in DOMAIN hd.lines |-> Render(hd.lines[i])]

MinimalTemplate == JobTemplate({}, <<JobResource(1, 1, 0)>>, <<>>)

\* C22: a job template with num_machines=1, num_mpiprocs_per_machine=1 and no
\* optional field renders exactly the four directives --no-requeue,
\* --error=slurm-%j.err, --nodes=1, --ntasks-per-node=1, in this order.
C22_MinimalHeader ==
    (hd.op = "header" /\ hd.tmpl = MinimalTemplate)
        => /\ hd.result = "ok"
           /\ Rendered = <<"#SBATCH --no-requeue", "#SBATCH --error=slurm-%j.err",
                           "#SBATCH --nodes=1", "#SBATCH --ntasks-per-node=1">>

\* The minimal template has been rendered.
C22_MinimalRendered == hd.op = "header" /\ hd.tmpl = MinimalTemplate /\ Len(hd.lines) = 4

\* The texts D-HH:MM:SS (HH:MM:SS below one day) that stand for t seconds
\* with HH < 24, MM < 60, SS < 60.
ClockText(t, d, h, m, s) ==
    (IF t < 86400 THEN "" ELSE FormatD(d) \o "-")
        \o Format02d(h) \o ":" \o Format02d(m) \o ":" \o Format02d(s)

ClockTexts(t) ==
    UNION {UNION {{ClockText(t, q[1], q[2], m, s) :
                      q \in {q \in (0..(MaxDays + 1)) \X (0..23) :
                                q[1] * 86400 + q[2] * 3600 + m * 60 + s = t}} :
                  m \in {m \in 0..59 : (t - s - m * 60) % 3600 = 0}} :
           s \in {s \in 0..59 : (t - s) % 60 = 0}}

TimeDirectives == SelectSeq(hd.lines, LAMBDA line : line.key = "#SBATCH --time=")

\* C23: for max_wallclock_seconds = t > 0 the header has exactly one --time
\* directive, HH:MM:SS when t < 86400 and D-HH:MM:SS when t >= 86400, with
\* D*86400 + HH*3600 + MM*60 + SS = t and HH < 24, MM < 60, SS < 60.
C23_WallclockDirective ==
    (hd.op = "header" /\ hd.tmpl.job_resource # <<>> /\ hd.tmpl.max_wallclock_seconds # <<>>
        /\ hd.tmpl.max_wallclock_seconds[1] > 0)
        => /\ hd.result = "ok"
           /\ Len(TimeDirectives) = 1
           /\ TimeDirectives[1].value \in ClockTexts(hd.tmpl.max_wallclock_seconds[1])

\* A limit of one day and more was rendered with the day prefix.
C23_DayPrefixRendered ==
    /\ hd.op = "header" /\ hd.result = "ok"
    /\ hd.tmpl.max_wallclock_seconds = <<93599>>
    /\ Len(TimeDirectives) = 1 /\ TimeDirectives[1].value = "1-01:59:59"

(***************************************************************************)
(* The in-flight counter over the life of the transport.                   *)
(***************************************************************************)
\* C24: _concurrent_io equals the number of getfile / putfile calls between
\* _lock and _unlock; it is never negative and is 0 whenever no transfer is
\* running, also after transfers whose download / upload raised.
C24_CounterMatchesInFlight == concurrent_io = Cardinality(InFlight)

\* C25: if every admitted download / upload eventually returns or raises,
\* every call waiting in _lock is eventually admitted: failed transfers never
\* leave later transfers waiting forever.
C25_WaitingEventuallyAdmitted ==
    \A p \in Procs : (pc[p].at = "sleep") ~> (pc[p].at = "io")

(***************************************************************************)
(* The number of page requests of get_jobs.                                *)
(***************************************************************************)
AllActive == \A i \in DOMAIN sched.jobs : sched.jobs[i] \in sched.active

\* C27: for N active jobs and page size P >= 1 the paging loop of get_jobs
\* ends after exactly floor(N / P) + 1 poll_active calls (one extra, empty
\* page when N is a multiple of P).
C27_PollCount ==
    (sched.op = "get_jobs" /\ sched.fault = NoPollFault /\ AllActive)
        => /\ sched.result = "ok"
           /\ Len(sched.pages) = (Len(sched.jobs) \div sched.page_size) + 1

\* Four active jobs in pages of two: the third, empty page was asked for.
C27_EmptyLastPage ==
    /\ sched.op = "get_jobs" /\ sched.fault = NoPollFault /\ AllActive
    /\ Len(sched.jobs) = 4 /\ sched.page_size = 2
    /\ sched.pages = <<0, 1, 2>> /\ Len(sched.job_list) = 4

(***************************************************************************)
(* puttree onto a destination that is already there.                       *)
(***************************************************************************)
PutNested == JoinPath(RemoteDest, <<Name(LocalSrc)>>)

TargetTaken ==
    /\ tree.op = "puttree" /\ tree.src \in DOMAIN tree.pre_local
    /\ RemoteDest \in DOMAIN tree.pre_remote /\ PutNested \in DOMAIN tree.pre_remote

\* C28: puttree never writes into an existing target directory: when the
\* destination exists and destination/<basename of the source> exists too,
\* puttree raises OSError before any upload and leaves the remote tree as
\* it was.
C28_ExistingTargetUntouched ==
    TargetTaken
        => /\ tree.result = "OSError"
           /\ tree.strategy = "none"
           /\ remote = tree.pre_remote

\* The third puttree of the same directory was refused.
C28_ThirdPuttreeRefused ==
    TargetTaken /\ tree.n = 3 /\ tree.result = "OSError" /\ remote = tree.pre_remote

(***************************************************************************)
(* What the strategy of gettree depends on.                                *)
(***************************************************************************)
\* The strategy that payoff_override and the number of entries of the remote
\* recursive listing give.
StrategyOf(override, entries) ==
    IF override # "None" THEN (IF override = "True" THEN "tar" ELSE "files")
    ELSE IF entries > PayoffThreshold THEN "tar" ELSE "files"

\* C29: the strategy of gettree depends only on payoff_override and on the
\* number of entries in the remote recursive listing: two runs that differ
\* only in the local filesystem choose the same strategy.
C29_StrategyIgnoresLocalDisk ==
    (tree.op = "gettree" /\ tree.strategy \in {"tar", "files"})
        => tree.strategy =
               StrategyOf(tree.override, Cardinality(Descendants(tree.pre_remote, tree.src)))

(***************************************************************************)
(* The cache after a change made through the object.                       *)
(***************************************************************************)
\* What a probe answers from the server's own reply.
FreshAnswer(op, node) == Bool(FcMode(node, op # "is_symlink") = ProbeKind(op))

\* The last call was a probe answered True or False by an object that
\* caches, and the call before it changed the path through the same object.
ProbedAfterChange ==
    /\ ProbedCached /\ fcp.result \in {"True", "False"}
    /\ fcp.changed_before

\* C30: with caching enabled an FcPath never answers a probe from a cache
\* entry that a change through the same object made stale: after chmod,
\* unlink, rmtree or rename the next is_file / is_dir / is_symlink answers
\* as an FcPath without cache does.
C30_NoStaleAnswerAfterChange ==
    ProbedAfterChange => fcp.result = FreshAnswer(fcp.op, fcp.node)
====
